---- MODULE Spec2Model ----
(***************************************************************************)
(* State-machine model of the bp-sdk Rust crate: the routing engines and   *)
(* their manager (src/rust/src/routing.rs), the security policy engine     *)
(* (src/rust/src/bpsec.rs) and the transport adapters (src/rust/src/cla.rs,*)
(* src/rust/src/transport/mod.rs).  Every operation is an operator          *)
(* that maps the object it is called on to the updated object and the      *)
(* value it returns; the actions apply these operators to the state.       *)
(***************************************************************************)
EXTENDS Integers, Sequences, FiniteSets, TLC

VARIABLES
    now,              \* the wall clock (Utc::now), in whole hours
    bundle_dest,      \* Bundle.dest_eid of every bundle id (bundles are immutable values)
    engine_objs,      \* the routing engine instances (the Arc<dyn RoutingEngine> targets)
    engines,          \* RoutingManager.engines: name -> index into engine_objs
    active_engine,    \* RoutingManager.active_engine: a name, or None
    rcalls,           \* number of calls made on the RoutingManager so far
    called,           \* the <<engine, bundle, neighbour>> should_forward was called for
    granted,          \* those for which a call returned true
    regranted,        \* those for which a second call returned true
    rret,             \* the last routing call: operation, arguments, delegate, result
    policies,         \* BpsecManager.policies: name -> SecurityPolicy
    keys,             \* BpsecManager.keys: key id -> key bytes
    cur,              \* the bundle the orchestrator currently holds
    orig,             \* the bundle as it was created
    prov,             \* what has been done to cur since it was created
    sret,             \* the last security call: operation and result
    cla_objs,         \* the transport adapter instances (the Arc<dyn Cla> targets)
    clas,             \* cla::ClaManager.clas: protocol -> index into cla_objs
    loops,            \* the background accept / receive loops spawned so far
    conns,            \* the handle_connection tasks of accepted stream connections
    cla_names,        \* the protocol names registered and not since unregistered
    cret,             \* the last transport call or delivery, and its result
    framed,           \* a transport::TcpCla, its receive() and stop() calls in progress
    metrics,          \* a MetricsCollector and the calls its callers have in progress
    sdk,              \* a BpSdk: the initialized flag, the endpoints, the attach state
    expiry,           \* a Bundle, the clock, and the last is_expired() answer
    tasks,            \* the calls concurrent callers have in progress: operation, position, locals
    hist              \* what the callers of a component have observed so far

routingVars == <<now, bundle_dest, engine_objs, engines, active_engine,
                 rcalls, called, granted, regranted, rret>>
bpsecVars == <<policies, keys, cur, orig, prov, sret>>
claVars == <<cla_objs, clas, loops, conns, cla_names, cret>>
concVars == <<tasks, hist>>
extVars == <<framed, metrics, sdk, expiry, concVars>>
vars == <<routingVars, bpsecVars, claVars, extVars>>

None == "None"

----------------------------------------------------------------------------
(* Bounds of the model                                                     *)

NumEids == 3
NumBundles == 2
MaxCopies == 3
MaxCalls == 4
MaxEngines == 5
MaxTime == 1

Eids == 1..NumEids
BundleIds == 1..NumBundles

\* a finite map as a function; Put overwrites like HashMap::insert
Put(m, k, v) == [x \in (DOMAIN m) \cup {k} |-> IF x = k THEN v ELSE m[x]]
Del(m, k) == [x \in (DOMAIN m) \ {k} |-> m[x]]
EmptyMap == [x \in {} |-> None]

Bundle(id) == [id |-> id, dest_eid |-> bundle_dest[id]]
\* probabilities and confidences are fixed-point numbers: ProbScale stands for 1.0
ProbScale == 10000

Times == 0..MaxTime
Contact(eid, st, en) ==
    [neighbor_eid |-> eid, start_time |-> st, end_time |-> en, confidence |-> ProbScale]
ContactInputs == {Contact(e, w[1], w[2]) : e \in Eids, w \in {<<0, 0>>, <<0, MaxTime>>, <<MaxTime, MaxTime>>}}
\* the contact lists handed to an engine: none, one contact, or two contacts
\* with the first two neighbours
PairContacts == {c \in ContactInputs : c.neighbor_eid \in {1, 2}}
ContactLists ==
    {<<>>} \cup {<<c>> : c \in ContactInputs}
           \cup {<<c, d>> : c \in PairContacts, d \in {x \in PairContacts : x.end_time = MaxTime}}

Contact_is_active(contact) == now >= contact.start_time /\ now <= contact.end_time

Clamp(x, lo, hi) == IF x < lo THEN lo ELSE IF x > hi THEN hi ELSE x

Route_new(dest_eid, next_hop, cost) ==
    [dest_eid |-> dest_eid, next_hop |-> next_hop, cost |-> cost,
     confidence |-> ProbScale, valid_until |-> now + 1]
Route_with_confidence(route, confidence) ==
    [route EXCEPT !.confidence = Clamp(confidence, 0, ProbScale)]
Route_with_validity(route, valid_until) == [route EXCEPT !.valid_until = valid_until]

\* Vec::sort_by_key(|r| r.cost): a stable sort, here by insertion
RECURSIVE InsertByCost(_, _)
InsertByCost(sorted, r) ==
    IF sorted = <<>> THEN <<r>>
    ELSE IF sorted[Len(sorted)].cost <= r.cost THEN Append(sorted, r)
    ELSE Append(InsertByCost(SubSeq(sorted, 1, Len(sorted) - 1), r), sorted[Len(sorted)])
RECURSIVE SortByCost(_)
SortByCost(routes) ==
    IF routes = <<>> THEN <<>>
    ELSE InsertByCost(SortByCost(SubSeq(routes, 1, Len(routes) - 1)), routes[Len(routes)])

----------------------------------------------------------------------------
(* RoutingContext and the three engines                                    *)

RoutingContext_new(bundle_id) ==
    [bundle_id |-> bundle_id, encounters |-> {}, copies_left |-> 1, last_updated |-> now]

\* Vec<Contact> update shared by the three engines: replace the entry of the
\* same neighbour in place, or push
Contacts_upsert(contacts, contact) ==
    IF \E i \in 1..Len(contacts) : contacts[i].neighbor_eid = contact.neighbor_eid
    THEN LET i == CHOOSE j \in 1..Len(contacts) :
                      /\ contacts[j].neighbor_eid = contact.neighbor_eid
                      /\ \A k \in 1..(j - 1) : contacts[k].neighbor_eid # contact.neighbor_eid
         IN  [contacts EXCEPT ![i] = contact]
    ELSE Append(contacts, contact)

EpidemicRouting_new ==
    [kind |-> "epidemic", name |-> "epidemic", initial_copies |-> 0,
     contacts |-> <<>>, routing_history |-> EmptyMap,
     delivery_probabilities |-> EmptyMap, last_encounter |-> EmptyMap]

\* A faulty should_replicate: it looks the neighbour up under the wrong bundle,
\* so an encounter recorded for this bundle is never found.
ShouldReplicateUnknownBundleOnly(e, bundle, contact) ==
    IF bundle.id \in DOMAIN e.routing_history
    THEN contact.neighbor_eid \notin
             UNION {e.routing_history[b].encounters :
                        b \in DOMAIN e.routing_history \ {bundle.id}}
    ELSE TRUE

EpidemicRouting_should_replicate(e, bundle, contact) ==
    IF bundle.id \in DOMAIN e.routing_history
    THEN contact.neighbor_eid \notin e.routing_history[bundle.id].encounters
    ELSE TRUE

EpidemicRouting_update_encounter(e, bundle_id, neighbor_eid) ==
    LET context == IF bundle_id \in DOMAIN e.routing_history
                   THEN e.routing_history[bundle_id]
                   ELSE RoutingContext_new(bundle_id)
    IN  [e EXCEPT !.routing_history =
            Put(@, bundle_id,
                [context EXCEPT !.encounters = @ \cup {neighbor_eid},
                                !.last_updated = now])]

EpidemicRouting_should_forward(e, bundle, contact) ==
    IF bundle.dest_eid = contact.neighbor_eid
    THEN [eng |-> e, result |-> TRUE]
    ELSE LET should_replicate == EpidemicRouting_should_replicate(e, bundle, contact)
         IN  [eng |-> IF should_replicate
                      THEN EpidemicRouting_update_encounter(e, bundle.id, contact.neighbor_eid)
                      ELSE e,
              result |-> should_replicate]

\* the loop of compute_routes over the contacts, left to right
RECURSIVE EpidemicRouting_routes(_, _)
EpidemicRouting_routes(dest_eid, contacts) ==
    IF contacts = <<>> THEN <<>>
    ELSE LET contact == contacts[Len(contacts)]
             rest == EpidemicRouting_routes(dest_eid, SubSeq(contacts, 1, Len(contacts) - 1))
         IN  IF Contact_is_active(contact) /\ now >= contact.start_time
             THEN Append(rest,
                         Route_with_validity(
                             Route_with_confidence(
                                 Route_new(dest_eid, contact.neighbor_eid, 1), contact.confidence),
                             contact.end_time))
             ELSE rest

\* compute_routes that returns the routes over the active contacts as they are
ComputeRoutesWithoutFallback(e, dest_eid, contacts) ==
    [eng |-> e, result |-> EpidemicRouting_routes(dest_eid, contacts)]

EpidemicRouting_compute_routes(e, dest_eid, contacts) ==
    LET routes == EpidemicRouting_routes(dest_eid, contacts)
    IN  [eng |-> e,
         result |-> IF routes = <<>> THEN <<Route_new(dest_eid, dest_eid, 100)>> ELSE routes]

EpidemicRouting_update_contact(e, contact) ==
    [e EXCEPT !.contacts = Contacts_upsert(@, contact)]

SprayAndWaitRouting_new(initial_copies) ==
    [kind |-> "spray_and_wait", name |-> "spray_and_wait", initial_copies |-> initial_copies,
     contacts |-> <<>>, routing_history |-> EmptyMap,
     delivery_probabilities |-> EmptyMap, last_encounter |-> EmptyMap]

\* A faulty should_spray: it hands out the last copy too (> 0 for > 1).
ShouldSprayLastCopy(e, bundle, contact) ==
    LET context == IF bundle.id \in DOMAIN e.routing_history
                   THEN e.routing_history[bundle.id]
                   ELSE [RoutingContext_new(bundle.id) EXCEPT !.copies_left = e.initial_copies]
        e1 == [e EXCEPT !.routing_history = Put(@, bundle.id, context)]
    IN  IF bundle.dest_eid = contact.neighbor_eid
        THEN [eng |-> e1, result |-> TRUE]
        ELSE IF context.copies_left > 0 /\ contact.neighbor_eid \notin context.encounters
             THEN [eng |-> [e1 EXCEPT !.routing_history[bundle.id] =
                               [context EXCEPT !.copies_left = @ - 1,
                                               !.encounters = @ \cup {contact.neighbor_eid},
                                               !.last_updated = now]],
                   result |-> TRUE]
             ELSE [eng |-> e1, result |-> FALSE]

\* A faulty should_spray: it tests the budget before the destination.
ShouldSprayBudgetFirst(e, bundle, contact) ==
    LET context == IF bundle.id \in DOMAIN e.routing_history
                   THEN e.routing_history[bundle.id]
                   ELSE [RoutingContext_new(bundle.id) EXCEPT !.copies_left = e.initial_copies]
        e1 == [e EXCEPT !.routing_history = Put(@, bundle.id, context)]
    IN  IF context.copies_left <= 1
        THEN [eng |-> e1, result |-> FALSE]
        ELSE IF bundle.dest_eid = contact.neighbor_eid
        THEN [eng |-> e1, result |-> TRUE]
        ELSE IF contact.neighbor_eid \notin context.encounters
             THEN [eng |-> [e1 EXCEPT !.routing_history[bundle.id] =
                               [context EXCEPT !.copies_left = @ - 1,
                                               !.encounters = @ \cup {contact.neighbor_eid},
                                               !.last_updated = now]],
                   result |-> TRUE]
             ELSE [eng |-> e1, result |-> FALSE]

SprayAndWaitRouting_initialize_context(e, bundle_id) ==
    [RoutingContext_new(bundle_id) EXCEPT !.copies_left = e.initial_copies]

\* A faulty should_spray: it spends a copy without recording the neighbour.
ShouldSprayWithoutRecording(e, bundle, contact) ==
    LET context == IF bundle.id \in DOMAIN e.routing_history
                   THEN e.routing_history[bundle.id]
                   ELSE SprayAndWaitRouting_initialize_context(e, bundle.id)
        e1 == [e EXCEPT !.routing_history = Put(@, bundle.id, context)]
    IN  IF bundle.dest_eid = contact.neighbor_eid
        THEN [eng |-> e1, result |-> TRUE]
        ELSE IF context.copies_left > 1 /\ contact.neighbor_eid \notin context.encounters
             THEN [eng |-> [e1 EXCEPT !.routing_history[bundle.id] =
                               [context EXCEPT !.copies_left = @ - 1, !.last_updated = now]],
                   result |-> TRUE]
             ELSE [eng |-> e1, result |-> FALSE]

SprayAndWaitRouting_should_spray(e, bundle, contact) ==
    LET context == IF bundle.id \in DOMAIN e.routing_history
                   THEN e.routing_history[bundle.id]
                   ELSE SprayAndWaitRouting_initialize_context(e, bundle.id)
        e1 == [e EXCEPT !.routing_history = Put(@, bundle.id, context)]
    IN  IF bundle.dest_eid = contact.neighbor_eid
        THEN [eng |-> e1, result |-> TRUE]
        ELSE IF context.copies_left > 1 /\ contact.neighbor_eid \notin context.encounters
             THEN [eng |-> [e1 EXCEPT !.routing_history[bundle.id] =
                               [context EXCEPT !.copies_left = @ - 1,
                                               !.encounters = @ \cup {contact.neighbor_eid},
                                               !.last_updated = now]],
                   result |-> TRUE]
             ELSE [eng |-> e1, result |-> FALSE]

SprayAndWaitRouting_should_forward(e, bundle, contact) ==
    SprayAndWaitRouting_should_spray(e, bundle, contact)

RECURSIVE SprayAndWaitRouting_routes(_, _)
SprayAndWaitRouting_routes(dest_eid, contacts) ==
    IF contacts = <<>> THEN <<>>
    ELSE LET contact == contacts[Len(contacts)]
             rest == SprayAndWaitRouting_routes(dest_eid, SubSeq(contacts, 1, Len(contacts) - 1))
             cost == IF contact.neighbor_eid = dest_eid THEN 1 ELSE 50
         IN  IF Contact_is_active(contact) /\ now >= contact.start_time
             THEN Append(rest,
                         Route_with_validity(
                             Route_with_confidence(
                                 Route_new(dest_eid, contact.neighbor_eid, cost), contact.confidence),
                             contact.end_time))
             ELSE rest

SprayAndWaitRouting_compute_routes(e, dest_eid, contacts) ==
    [eng |-> e, result |-> SortByCost(SprayAndWaitRouting_routes(dest_eid, contacts))]

SprayAndWaitRouting_update_contact(e, contact) ==
    [e EXCEPT !.contacts = Contacts_upsert(@, contact)]


\* ProphetRouting::new: alpha, beta and gamma, in hundredths
ProphetAlpha == 75
ProphetBeta == 25
ProphetGamma == 98

RECURSIVE Pow(_, _)
Pow(b, n) == IF n = 0 THEN 1 ELSE b * Pow(b, n - 1)

ProphetRouting_new ==
    [kind |-> "prophet", name |-> "prophet", initial_copies |-> 0,
     contacts |-> <<>>, routing_history |-> EmptyMap,
     delivery_probabilities |-> EmptyMap, last_encounter |-> EmptyMap]

ProphetRouting_update_delivery_probability(e, neighbor_eid) ==
    LET current_prob == IF neighbor_eid \in DOMAIN e.delivery_probabilities
                        THEN e.delivery_probabilities[neighbor_eid] ELSE 0
        new_prob == current_prob + ((ProbScale - current_prob) * ProphetAlpha) \div 100
    IN  [e EXCEPT !.delivery_probabilities = Put(@, neighbor_eid, new_prob),
                  !.last_encounter = Put(@, neighbor_eid, now)]

\* prob *= gamma ^ (elapsed hours), applied to the stored value
ProphetRouting_age_probabilities(e) ==
    [e EXCEPT !.delivery_probabilities =
        [eid \in DOMAIN @ |->
            IF eid \in DOMAIN e.last_encounter
            THEN LET time_diff == now - e.last_encounter[eid]
                 IN  (@[eid] * Pow(ProphetGamma, time_diff)) \div Pow(100, time_diff)
            ELSE @[eid]]]

ProphetRouting_get_delivery_probability(e, dest_eid) ==
    LET e1 == ProphetRouting_age_probabilities(e)
    IN  [eng |-> e1,
         result |-> IF dest_eid \in DOMAIN e1.delivery_probabilities
                    THEN e1.delivery_probabilities[dest_eid] ELSE 0]

\* the loop of compute_routes: [eng, result] after the contacts, left to right
RECURSIVE ProphetRouting_routes(_, _, _)
ProphetRouting_routes(e, dest_eid, contacts) ==
    IF contacts = <<>> THEN [eng |-> e, result |-> <<>>]
    ELSE LET contact == contacts[Len(contacts)]
             rest == ProphetRouting_routes(e, dest_eid, SubSeq(contacts, 1, Len(contacts) - 1))
             got == ProphetRouting_get_delivery_probability(rest.eng, contact.neighbor_eid)
             delivery_prob == got.result
             cost == IF delivery_prob > 0 THEN ProbScale \div delivery_prob ELSE 1000
         IN  IF Contact_is_active(contact)
             THEN [eng |-> got.eng,
                   result |-> Append(rest.result,
                       Route_with_validity(
                           Route_with_confidence(
                               Route_new(dest_eid, contact.neighbor_eid, cost), delivery_prob),
                           contact.end_time))]
             ELSE rest

ProphetRouting_compute_routes(e, dest_eid, contacts) ==
    LET r == ProphetRouting_routes(e, dest_eid, contacts)
    IN  [eng |-> r.eng, result |-> SortByCost(r.result)]

ProphetRouting_update_contact(e, contact) ==
    ProphetRouting_update_delivery_probability(
        [e EXCEPT !.contacts = Contacts_upsert(@, contact)], contact.neighbor_eid)

ProphetRouting_should_forward(e, bundle, contact) ==
    IF bundle.dest_eid = contact.neighbor_eid
    THEN [eng |-> e, result |-> TRUE]
    ELSE LET my == ProphetRouting_get_delivery_probability(e, bundle.dest_eid)
             neighbor == ProphetRouting_get_delivery_probability(my.eng, contact.neighbor_eid)
         IN  [eng |-> neighbor.eng,
              result |-> neighbor.result > my.result + (ProphetBeta * ProbScale) \div 100]

\* dynamic dispatch over the trait RoutingEngine
RoutingEngine_should_forward(e, bundle, contact) ==
    CASE e.kind = "epidemic" -> EpidemicRouting_should_forward(e, bundle, contact)
      [] e.kind = "spray_and_wait" -> SprayAndWaitRouting_should_forward(e, bundle, contact)
      [] e.kind = "prophet" -> ProphetRouting_should_forward(e, bundle, contact)

RoutingEngine_compute_routes(e, dest_eid, contacts) ==
    CASE e.kind = "epidemic" -> EpidemicRouting_compute_routes(e, dest_eid, contacts)
      [] e.kind = "spray_and_wait" -> SprayAndWaitRouting_compute_routes(e, dest_eid, contacts)
      [] e.kind = "prophet" -> ProphetRouting_compute_routes(e, dest_eid, contacts)

RoutingEngine_update_contact(e, contact) ==
    CASE e.kind = "epidemic" -> EpidemicRouting_update_contact(e, contact)
      [] e.kind = "spray_and_wait" -> SprayAndWaitRouting_update_contact(e, contact)
      [] e.kind = "prophet" -> ProphetRouting_update_contact(e, contact)

----------------------------------------------------------------------------
(* RoutingManager                                                          *)

\* the budget RoutingManager::new gives its bounded-replication engine
DefaultSprayCopies == 10

\* m is the manager [engines, active_engine]; engine is an index into engine_objs
\* and name the name() of that instance
RoutingManager_register_engine(m, engine, name) ==
    LET inserted == Put(m.engines, name, engine)
    IN  [engines |-> inserted,
         active_engine |-> IF m.active_engine = None THEN name ELSE m.active_engine]

\* the instances RoutingManager::new creates, in registration order
RoutingManager_new_objs ==
    <<EpidemicRouting_new, SprayAndWaitRouting_new(DefaultSprayCopies), ProphetRouting_new>>

RECURSIVE RoutingManager_register_all(_, _, _)
RoutingManager_register_all(m, objs, n) ==
    IF n = 0 THEN m
    ELSE RoutingManager_register_engine(
             RoutingManager_register_all(m, objs, n - 1), n, objs[n].name)

RoutingManager_new ==
    RoutingManager_register_all([engines |-> EmptyMap, active_engine |-> None],
                                RoutingManager_new_objs, Len(RoutingManager_new_objs))

RoutingManager_set_active_engine(m, name) ==
    IF name \in DOMAIN m.engines
    THEN [mgr |-> [m EXCEPT !.active_engine = name], result |-> "Ok"]
    ELSE [mgr |-> m, result |-> "NotFound"]

\* a get_active_engine that always answers with the engine registered first
GetFirstRegisteredEngine(m) == IF DOMAIN m.engines = {} THEN 0 ELSE 1

\* the index of the active instance, or 0 for Option::None
RoutingManager_get_active_engine(m) ==
    IF m.active_engine = None THEN 0
    ELSE IF m.active_engine \in DOMAIN m.engines THEN m.engines[m.active_engine] ELSE 0

RoutingManager_list_engines(m) == DOMAIN m.engines

Manager == [engines |-> engines, active_engine |-> active_engine]

----------------------------------------------------------------------------
(* Actions of the routing components                                       *)

ForwardContacts == {Contact(e, 0, MaxTime) : e \in Eids}
EngineNames == {"epidemic", "spray_and_wait", "prophet"}
NameInputs == EngineNames \cup {"nonexistent"}
EngineInputs == {EpidemicRouting_new, ProphetRouting_new, SprayAndWaitRouting_new(MaxCopies)}
\* the contact lists handed to the manager: none, or one contact
ManagerContactLists == {<<>>} \cup {<<c>> : c \in ForwardContacts}

RoutingInit(objs, m) ==
    /\ now = 0
    /\ bundle_dest = [b \in BundleIds |-> ((b - 1) % NumEids) + 1]
    /\ engine_objs = objs
    /\ engines = m.engines
    /\ active_engine = m.active_engine
    /\ rcalls = 0
    /\ called = {}
    /\ granted = {}
    /\ regranted = {}
    /\ rret = [op |-> "new"]

\* Utc::now() moves on between calls
Tick ==
    /\ now < MaxTime
    /\ now' = now + 1
    /\ UNCHANGED <<bundle_dest, engine_objs, engines, active_engine,
                   rcalls, called, granted, regranted, rret, bpsecVars, claVars, extVars>>

\* engine.should_forward(&bundle, &contact) on instance i, reached as `op`
DoShouldForward(op, i, id, contact) ==
    LET r == RoutingEngine_should_forward(engine_objs[i], Bundle(id), contact)
        t == <<i, id, contact.neighbor_eid>>
    IN  /\ engine_objs' = [engine_objs EXCEPT ![i] = r.eng]
        /\ called' = called \cup {t}
        /\ granted' = IF r.result THEN granted \cup {t} ELSE granted
        /\ regranted' = IF r.result /\ t \in granted THEN regranted \cup {t} ELSE regranted
        /\ rret' = [op |-> op, engine |-> i, bundle |-> id,
                    neighbor |-> contact.neighbor_eid, result |-> r.result]
        /\ UNCHANGED <<now, bundle_dest, engines, active_engine, bpsecVars, claVars, extVars>>

DoComputeRoutes(op, i, dest_eid, contacts) ==
    LET r == RoutingEngine_compute_routes(engine_objs[i], dest_eid, contacts)
    IN  /\ engine_objs' = [engine_objs EXCEPT ![i] = r.eng]
        /\ rret' = [op |-> op, engine |-> i, dest_eid |-> dest_eid,
                    contacts |-> contacts, result |-> r.result]
        /\ UNCHANGED <<now, bundle_dest, engines, active_engine,
                       called, granted, regranted, bpsecVars, claVars, extVars>>

DoUpdateContact(op, i, contact) ==
    /\ engine_objs' = [engine_objs EXCEPT ![i] = RoutingEngine_update_contact(@, contact)]
    /\ rret' = [op |-> op, engine |-> i, contact |-> contact]
    /\ UNCHANGED <<now, bundle_dest, engines, active_engine,
                   called, granted, regranted, bpsecVars, claVars, extVars>>

\* calls made on an engine instance itself
EngineShouldForward == \E id \in BundleIds, c \in ForwardContacts :
    DoShouldForward("should_forward", 1, id, c) /\ UNCHANGED rcalls
EngineComputeRoutes == \E d \in Eids, cs \in ContactLists :
    DoComputeRoutes("compute_routes", 1, d, cs) /\ UNCHANGED rcalls
EngineUpdateContact == \E c \in ContactInputs :
    DoUpdateContact("update_contact", 1, c) /\ UNCHANGED rcalls

\* calls made on the RoutingManager
ManagerRegisterEngine == \E e \in EngineInputs :
    LET m == RoutingManager_register_engine(Manager, Len(engine_objs) + 1, e.name)
    IN  /\ rcalls < MaxCalls
        /\ Len(engine_objs) < MaxEngines
        /\ rcalls' = rcalls + 1
        /\ engine_objs' = Append(engine_objs, e)
        /\ engines' = m.engines
        /\ active_engine' = m.active_engine
        /\ rret' = [op |-> "register_engine", name |-> e.name,
                    engine |-> Len(engine_objs) + 1, result |-> "Unit"]
        /\ UNCHANGED <<now, bundle_dest, called, granted, regranted, bpsecVars, claVars, extVars>>

ManagerSetActiveEngine == \E name \in NameInputs :
    LET r == RoutingManager_set_active_engine(Manager, name)
    IN  /\ rcalls < MaxCalls
        /\ rcalls' = rcalls + 1
        /\ engines' = r.mgr.engines
        /\ active_engine' = r.mgr.active_engine
        /\ rret' = [op |-> "set_active_engine", name |-> name, result |-> r.result]
        /\ UNCHANGED <<now, bundle_dest, engine_objs, called, granted, regranted, bpsecVars, claVars, extVars>>

\* the pass-through calls: with no active engine should_forward is permissive,
\* compute_routes is empty and update_contact does nothing
ManagerNoEngine(op, result) ==
    /\ rret' = [op |-> op, engine |-> 0, result |-> result]
    /\ UNCHANGED <<now, bundle_dest, engine_objs, engines, active_engine,
                   called, granted, regranted, bpsecVars, claVars, extVars>>

ManagerCall == rcalls < MaxCalls /\ rcalls' = rcalls + 1

ManagerShouldForward == \E id \in BundleIds, c \in ForwardContacts :
    LET i == RoutingManager_get_active_engine(Manager)
    IN  /\ ManagerCall
        /\ IF i # 0 THEN DoShouldForward("manager.should_forward", i, id, c)
           ELSE ManagerNoEngine("manager.should_forward", TRUE)

ManagerComputeRoutes == \E d \in Eids, cs \in ManagerContactLists :
    LET i == RoutingManager_get_active_engine(Manager)
    IN  /\ ManagerCall
        /\ IF i # 0 THEN DoComputeRoutes("manager.compute_routes", i, d, cs)
           ELSE ManagerNoEngine("manager.compute_routes", <<>>)

ManagerUpdateContact == \E c \in ForwardContacts :
    LET i == RoutingManager_get_active_engine(Manager)
    IN  /\ ManagerCall
        /\ IF i # 0 THEN DoUpdateContact("manager.update_contact", i, c)
           ELSE ManagerNoEngine("manager.update_contact", "Unit")

----------------------------------------------------------------------------
(* The security policy engine: byte strings, the primitives of ring, hex   *)

\* Bytes are sequences of 0..255.  The primitives of the ring crate are
\* modelled on these byte strings: a keyed stream for AES-GCM's encryption, and
\* tags that bind the key and everything they authenticate.
Aes256KeyLen == 32
NonceLen == 12
TagLen == 16
HmacLen == 32
ShortKeyLen == 16

MaxPayloadLen == 1
MaxByte == 0
NumKeyFills == 2
NumNonces == 2

Fill(len, b) == [i \in 1..len |-> b]

\* a digest of a byte string: a position-weighted sum, summed by halves
RECURSIVE DigestSum(_, _, _)
DigestSum(bytes, lo, hi) ==
    IF lo > hi THEN 0
    ELSE IF lo = hi THEN ((bytes[lo] + 1) * ((lo * lo * 31 + lo * 17 + 1) % 65521)) % 65521
    ELSE LET mid == (lo + hi) \div 2
         IN  (DigestSum(bytes, lo, mid) + DigestSum(bytes, mid + 1, hi)) % 65521
Digest(seed, bytes) == (seed + DigestSum(bytes, 1, Len(bytes))) % 65521

Pad(bytes, len) == [i \in 1..len |-> IF i <= Len(bytes) THEN bytes[i] ELSE 0]

Keystream(key, nonce, i) ==
    (key[((i - 1) % Len(key)) + 1] + nonce[((i - 1) % Len(nonce)) + 1] + i) % 256

AeadTag(key, nonce, ciphertext) ==
    LET h == Digest(7, key \o nonce \o ciphertext)
    IN  Pad(<<h \div 256, h % 256, Len(ciphertext) % 256, key[1], nonce[1]>>, TagLen)

\* aead::UnboundKey::new(&AES_256_GCM, key)
Aead_UnboundKey_new(key) == Len(key) = Aes256KeyLen

\* LessSafeKey::seal_in_place_append_tag: the buffer afterwards
Aead_seal_in_place_append_tag(key, nonce, in_out) ==
    LET ciphertext == [i \in 1..Len(in_out) |-> (in_out[i] + Keystream(key, nonce, i)) % 256]
    IN  ciphertext \o AeadTag(key, nonce, ciphertext)

\* LessSafeKey::open_in_place: fails unless the tag authenticates; on success the
\* buffer holds the plaintext followed by the tag bytes
Aead_open_in_place(key, nonce, in_out) ==
    IF Len(in_out) < TagLen THEN [ok |-> FALSE]
    ELSE LET n == Len(in_out) - TagLen
             ciphertext == SubSeq(in_out, 1, n)
             tag == SubSeq(in_out, n + 1, Len(in_out))
         IN  IF tag # AeadTag(key, nonce, ciphertext) THEN [ok |-> FALSE]
             ELSE [ok |-> TRUE,
                   in_out |-> [i \in 1..Len(in_out) |->
                                  IF i <= n
                                  THEN (in_out[i] + 512 - Keystream(key, nonce, i)) % 256
                                  ELSE in_out[i]]]

\* hmac::sign(&Key::new(HMAC_SHA256, key), data)
Hmac_sign(key, data) ==
    LET h == Digest(11, key \o <<255>> \o data)
    IN  Pad(<<h \div 256, h % 256, Len(data) % 256, Len(key) % 256,
              IF key = <<>> THEN 0 ELSE key[1]>>, HmacLen)

HexChars == <<"0", "1", "2", "3", "4", "5", "6", "7",
              "8", "9", "a", "b", "c", "d", "e", "f">>

\* hex::encode: two lower-case digits per byte, high nibble first
Hex_encode(bytes) ==
    [i \in 1..(2 * Len(bytes)) |->
        LET b == bytes[(i + 1) \div 2]
        IN  IF i % 2 = 1 THEN HexChars[(b \div 16) + 1] ELSE HexChars[(b % 16) + 1]]

IsHexChar(c) == \E i \in 1..16 : HexChars[i] = c
HexVal(c) == (CHOOSE i \in 1..16 : HexChars[i] = c) - 1

Hex_decode(chars) ==
    IF Len(chars) % 2 # 0 \/ \E i \in 1..Len(chars) : ~IsHexChar(chars[i])
    THEN [ok |-> FALSE]
    ELSE [ok |-> TRUE,
          val |-> [i \in 1..(Len(chars) \div 2) |->
                      16 * HexVal(chars[2 * i - 1]) + HexVal(chars[2 * i])]]

Ok(v) == [ok |-> TRUE, val |-> v]
Err(e) == [ok |-> FALSE, err |-> e]

----------------------------------------------------------------------------
(* SecurityPolicy and BpsecManager                                         *)

SecurityPolicy(name, operation, algorithm, key_id, target_eids, enabled) ==
    [name |-> name, operation |-> operation, algorithm |-> algorithm,
     key_id |-> key_id, target_eids |-> target_eids, enabled |-> enabled]

\* A faulty applies_to: it forgets the target list.
AppliesToWhenEnabled(policy, eid) == policy.enabled

SecurityPolicy_applies_to(policy, eid) ==
    policy.enabled /\ (policy.target_eids = <<>>
                       \/ \E i \in 1..Len(policy.target_eids) : policy.target_eids[i] = eid)

\* A faulty add_policy: insert without the contains_key test.
AddPolicyOverwriting(ps, policy) ==
    [map |-> Put(ps, policy.name, policy), result |-> "Ok"]

\* the registries: [map, result] of add / remove on a HashMap
BpsecManager_add_policy(ps, policy) ==
    IF policy.name \in DOMAIN ps THEN [map |-> ps, result |-> "Duplicate"]
    ELSE [map |-> Put(ps, policy.name, policy), result |-> "Ok"]

BpsecManager_remove_policy(ps, name) ==
    IF name \in DOMAIN ps THEN [map |-> Del(ps, name), result |-> "Ok"]
    ELSE [map |-> ps, result |-> "NotFound"]

BpsecManager_get_policy(ps, name) == IF name \in DOMAIN ps THEN ps[name] ELSE None

BpsecManager_list_policies(ps) == {ps[n] : n \in DOMAIN ps}

BpsecManager_add_key(ks, key_id, key) ==
    IF key_id \in DOMAIN ks THEN [map |-> ks, result |-> "Duplicate"]
    ELSE [map |-> Put(ks, key_id, key), result |-> "Ok"]

BpsecManager_remove_key(ks, key_id) ==
    IF key_id \in DOMAIN ks THEN [map |-> Del(ks, key_id), result |-> "Ok"]
    ELSE [map |-> ks, result |-> "NotFound"]

\* A faulty encrypt_data: a key of another length is padded or cut to 32 bytes.
EncryptDataPaddingKey(data, key, algorithm, nonce_bytes) ==
    IF algorithm = "AES-256-GCM"
    THEN Ok(nonce_bytes \o Aead_seal_in_place_append_tag(Pad(key, Aes256KeyLen), nonce_bytes, data))
    ELSE Err("Protocol")

\* nonce_bytes is what SystemRandom::fill wrote
BpsecManager_encrypt_data(data, key, algorithm, nonce_bytes) ==
    IF algorithm = "AES-256-GCM"
    THEN IF Len(key) # Aes256KeyLen THEN Err("Security")
         ELSE IF ~Aead_UnboundKey_new(key) THEN Err("Security")
         ELSE Ok(nonce_bytes \o Aead_seal_in_place_append_tag(key, nonce_bytes, data))
    ELSE Err("Protocol")

BpsecManager_sign_data(data, key, algorithm) ==
    IF algorithm = "HMAC-SHA256" THEN Ok(Hmac_sign(key, data))
    ELSE Err("Protocol")

\* A faulty decrypt_data: the authentication tag is left on the plaintext.
DecryptDataKeepingTag(data, key, algorithm) ==
    IF algorithm = "AES-256-GCM"
    THEN IF Len(data) < NonceLen THEN Err("Security")
         ELSE LET nonce_bytes == SubSeq(data, 1, NonceLen)
                  ciphertext == SubSeq(data, NonceLen + 1, Len(data))
              IN  IF ~Aead_UnboundKey_new(key) THEN Err("Security")
                  ELSE LET opened == Aead_open_in_place(key, nonce_bytes, ciphertext)
                       IN  IF ~opened.ok THEN Err("Security")
                           ELSE Ok(opened.in_out)
    ELSE Err("Protocol")

BpsecManager_decrypt_data(data, key, algorithm) ==
    IF algorithm = "AES-256-GCM"
    THEN IF Len(data) < NonceLen THEN Err("Security")
         ELSE LET nonce_bytes == SubSeq(data, 1, NonceLen)
                  ciphertext == SubSeq(data, NonceLen + 1, Len(data))
              IN  IF ~Aead_UnboundKey_new(key) THEN Err("Security")
                  ELSE LET opened == Aead_open_in_place(key, nonce_bytes, ciphertext)
                       IN  IF ~opened.ok THEN Err("Security")
                           ELSE Ok(SubSeq(opened.in_out, 1, Len(opened.in_out) - TagLen))
    ELSE Err("Protocol")

BpsecManager_encrypt_bundle(bundle, key, algorithm, nonce_bytes) ==
    LET encrypted_payload == BpsecManager_encrypt_data(bundle.payload, key, algorithm, nonce_bytes)
    IN  IF ~encrypted_payload.ok THEN encrypted_payload
        ELSE Ok([bundle EXCEPT
                   !.payload = encrypted_payload.val,
                   !.metadata = Put(Put(@, "security_applied", "encryption"),
                                    "encryption_algorithm", algorithm)])

BpsecManager_sign_bundle(bundle, key, algorithm) ==
    LET signature == BpsecManager_sign_data(bundle.payload, key, algorithm)
    IN  IF ~signature.ok THEN signature
        ELSE Ok([bundle EXCEPT
                   !.metadata = Put(Put(Put(@, "security_applied", "signature"),
                                        "signature_algorithm", algorithm),
                                    "signature", Hex_encode(signature.val))])

BpsecManager_apply_policy(ks, bundle, policy, nonce_bytes) ==
    IF policy.key_id \notin DOMAIN ks THEN Err("NotFound")
    ELSE LET key == ks[policy.key_id]
         IN  CASE policy.operation = "Encrypt" ->
                      BpsecManager_encrypt_bundle(bundle, key, policy.algorithm, nonce_bytes)
               [] policy.operation = "Sign" ->
                      BpsecManager_sign_bundle(bundle, key, policy.algorithm)
               [] OTHER -> Err("Protocol")

\* the policies the filter of apply_security keeps
BpsecManager_applicable_policies(ps, bundle) ==
    {n \in DOMAIN ps : SecurityPolicy_applies_to(ps[n], bundle.dest_eid)}

\* the loop of apply_security over the first n applicable policies; order is the
\* order in which HashMap::values yields them, nonces the nonce drawn in each round
RECURSIVE BpsecManager_apply_loop(_, _, _, _, _, _)
BpsecManager_apply_loop(ps, ks, bundle, order, nonces, n) ==
    IF n = 0 THEN Ok(bundle)
    ELSE LET secured_bundle == BpsecManager_apply_loop(ps, ks, bundle, order, nonces, n - 1)
         IN  IF ~secured_bundle.ok THEN secured_bundle
             ELSE BpsecManager_apply_policy(ks, secured_bundle.val, ps[order[n]], nonces[n])

BpsecManager_apply_security(ps, ks, bundle, order, nonces) ==
    IF BpsecManager_applicable_policies(ps, bundle) = {} THEN Ok(bundle)
    ELSE BpsecManager_apply_loop(ps, ks, bundle, order, nonces, Len(order))

\* A faulty verify loop: a key that can sign at all is taken to match.
VerifyLoopWithoutCompare(ks, bundle, signature, algorithm, korder) ==
    \E i \in 1..Len(korder) :
        BpsecManager_sign_data(bundle.payload, ks[korder[i]], algorithm).ok

\* the loop of verify_signature over keys.values(), in the order korder
RECURSIVE BpsecManager_verify_loop(_, _, _, _, _)
BpsecManager_verify_loop(ks, bundle, signature, algorithm, korder) ==
    IF korder = <<>> THEN FALSE
    ELSE LET computed_signature == BpsecManager_sign_data(bundle.payload, ks[korder[1]], algorithm)
         IN  IF computed_signature.ok /\ computed_signature.val = signature THEN TRUE
             ELSE BpsecManager_verify_loop(ks, bundle, signature, algorithm, Tail(korder))

BpsecManager_verify_signature(ks, bundle, korder) ==
    IF "signature" \notin DOMAIN bundle.metadata THEN Err("Protocol")
    ELSE LET signature == Hex_decode(bundle.metadata["signature"])
             algorithm == IF "signature_algorithm" \in DOMAIN bundle.metadata
                          THEN bundle.metadata["signature_algorithm"] ELSE "HMAC-SHA256"
         IN  IF ~signature.ok THEN Err("Protocol")
             ELSE Ok(BpsecManager_verify_loop(ks, bundle, signature.val, algorithm, korder))

BpsecManager_verify_bundle(ks, bundle, korder) ==
    IF "security_applied" \notin DOMAIN bundle.metadata THEN Ok(TRUE)
    ELSE IF bundle.metadata["security_applied"] = "signature"
         THEN BpsecManager_verify_signature(ks, bundle, korder)
         ELSE Ok(TRUE)

\* A faulty decrypt loop: only the first key of the keyring is tried.
DecryptLoopFirstKeyOnly(ks, bundle, algorithm, korder) ==
    IF korder = <<>> THEN Err("Security")
    ELSE LET decrypted_payload == BpsecManager_decrypt_data(bundle.payload, ks[korder[1]], algorithm)
         IN  IF decrypted_payload.ok
             THEN Ok([bundle EXCEPT
                        !.payload = decrypted_payload.val,
                        !.metadata = Del(Del(@, "security_applied"), "encryption_algorithm")])
             ELSE Err("Security")

\* the loop of decrypt_bundle over keys.values(), in the order korder
RECURSIVE BpsecManager_decrypt_loop(_, _, _, _)
BpsecManager_decrypt_loop(ks, bundle, algorithm, korder) ==
    IF korder = <<>> THEN Err("Security")
    ELSE LET decrypted_payload == BpsecManager_decrypt_data(bundle.payload, ks[korder[1]], algorithm)
         IN  IF decrypted_payload.ok
             THEN Ok([bundle EXCEPT
                        !.payload = decrypted_payload.val,
                        !.metadata = Del(Del(@, "security_applied"), "encryption_algorithm")])
             ELSE BpsecManager_decrypt_loop(ks, bundle, algorithm, Tail(korder))

BpsecManager_decrypt_bundle(ks, bundle, korder) ==
    IF "security_applied" \notin DOMAIN bundle.metadata THEN Ok(bundle)
    ELSE IF bundle.metadata["security_applied"] # "encryption" THEN Ok(bundle)
    ELSE LET algorithm == IF "encryption_algorithm" \in DOMAIN bundle.metadata
                          THEN bundle.metadata["encryption_algorithm"] ELSE "AES-256-GCM"
         IN  BpsecManager_decrypt_loop(ks, bundle, algorithm, korder)

----------------------------------------------------------------------------
(* Actions of the security policy engine                                   *)

SecEids == {"ipn:2.1", "ipn:3.1"}
PolicyNames == {"p1", "p2"}
KeyIds == {"k1", "k2"}

RECURSIVE SeqsUpTo(_, _)
SeqsUpTo(S, n) ==
    IF n = 0 THEN {<<>>}
    ELSE LET shorter == SeqsUpTo(S, n - 1)
         IN  shorter \cup {Append(s, x) : s \in {t \in shorter : Len(t) = n - 1}, x \in S}

Payloads == SeqsUpTo(0..MaxByte, MaxPayloadLen)
Nonces == {Fill(NonceLen, f) : f \in 0..(NumNonces - 1)}
\* the keys offered to add_key: k1 is a 32-byte key or a 16-byte one, k2 a
\* 32-byte key that may or may not have the bytes of k1
KeyInputs ==
    {<<"k1", Fill(Aes256KeyLen, 1)>>, <<"k1", Fill(ShortKeyLen, 1)>>}
        \cup {<<"k2", Fill(Aes256KeyLen, f)>> : f \in 1..NumKeyFills}

\* the policies offered to add_policy
PolicyInputs ==
    {SecurityPolicy("p1", "Encrypt", "AES-256-GCM", "k1", <<>>, TRUE),
     SecurityPolicy("p1", "Encrypt", "AES-256-GCM", "k1", <<"ipn:3.1">>, TRUE),
     SecurityPolicy("p1", "Encrypt", "AES-256-GCM", "k1", <<>>, FALSE),
     SecurityPolicy("p1", "Encrypt", "INVALID-ALGO", "k1", <<>>, TRUE),
     SecurityPolicy("p2", "Sign", "HMAC-SHA256", "k2", <<>>, TRUE),
     SecurityPolicy("p2", "Sign", "INVALID-ALGO", "k2", <<>>, TRUE),
     SecurityPolicy("p2", "Encrypt", "AES-256-GCM", "k2", <<>>, TRUE),
     SecurityPolicy("p2", "Verify", "HMAC-SHA256", "k2", <<>>, TRUE)}

\* Bundle::new(source, dest, payload): no metadata
SecBundle(dest_eid, payload) ==
    [id |-> 1, dest_eid |-> dest_eid, payload |-> payload, metadata |-> EmptyMap]
BundleInputs == {SecBundle(d, p) : d \in SecEids, p \in Payloads}

\* the orders in which a HashMap of these keys can be iterated
Orders(S) ==
    {s \in [1..Cardinality(S) -> S] : \A i, j \in 1..Cardinality(S) : i # j => s[i] # s[j]}

FreshProv == [ops |-> <<>>, touched |-> FALSE, opened |-> 0]

\* the policy maps add_policy can build
PolicyMaps ==
    {m \in UNION {[N -> PolicyInputs] : N \in SUBSET PolicyNames} :
        \A n \in DOMAIN m : m[n].name = n}

SecInit(ps) ==
    /\ policies \in ps
    /\ keys = EmptyMap
    /\ cur \in BundleInputs
    /\ orig = cur
    /\ prov = FreshProv
    /\ sret = [op |-> "new"]

AddPolicy == \E p \in PolicyInputs :
    LET r == BpsecManager_add_policy(policies, p)
    IN  /\ policies' = r.map
        /\ sret' = [op |-> "add_policy", policy |-> p, result |-> r.result]
        /\ UNCHANGED <<keys, cur, orig, prov, routingVars, claVars, extVars>>

RemovePolicy == \E n \in PolicyNames :
    LET r == BpsecManager_remove_policy(policies, n)
    IN  /\ policies' = r.map
        /\ sret' = [op |-> "remove_policy", name |-> n, result |-> r.result]
        /\ UNCHANGED <<keys, cur, orig, prov, routingVars, claVars, extVars>>

AddKey == \E ik \in KeyInputs :
    LET r == BpsecManager_add_key(keys, ik[1], ik[2])
    IN  /\ keys' = r.map
        /\ sret' = [op |-> "add_key", key_id |-> ik[1], key |-> ik[2], result |-> r.result]
        /\ UNCHANGED <<policies, cur, orig, prov, routingVars, claVars, extVars>>

RemoveKey == \E id \in KeyIds :
    LET r == BpsecManager_remove_key(keys, id)
    IN  /\ keys' = r.map
        /\ sret' = [op |-> "remove_key", key_id |-> id, result |-> r.result]
        /\ UNCHANGED <<policies, cur, orig, prov, routingVars, claVars, extVars>>

\* the orchestrator creates the next outbound bundle
NewBundle == \E b \in BundleInputs :
    /\ cur' = b
    /\ orig' = b
    /\ prov' = FreshProv
    /\ sret' = [op |-> "Bundle::new"]
    /\ UNCHANGED <<policies, keys, routingVars, claVars, extVars>>

\* what a successful apply_security did, as <<operation, key bytes>> per policy
AppliedOps(order) ==
    [i \in 1..Len(order) |-> <<policies[order[i]].operation, keys[policies[order[i]].key_id]>>]

\* the orchestrator seals the outbound bundle once, as it was created
ApplySecurity ==
    \E order \in Orders(BpsecManager_applicable_policies(policies, cur)) :
    \E nonces \in [1..Len(order) -> Nonces] :
    LET r == BpsecManager_apply_security(policies, keys, cur, order, nonces)
    IN  /\ prov = FreshProv
        /\ cur' = IF r.ok THEN r.val ELSE cur
        /\ prov' = IF r.ok THEN [prov EXCEPT !.ops = @ \o AppliedOps(order)] ELSE prov
        /\ sret' = [op |-> "apply_security", order |-> order,
                    result |-> IF r.ok THEN "Ok" ELSE r.err]
        /\ UNCHANGED <<policies, keys, orig, routingVars, claVars, extVars>>

DecryptBundle == \E korder \in Orders(DOMAIN keys) :
    LET r == BpsecManager_decrypt_bundle(keys, cur, korder)
    IN  /\ cur' = IF r.ok THEN r.val ELSE cur
        /\ prov' = IF r.ok /\ r.val # cur THEN [prov EXCEPT !.opened = @ + 1] ELSE prov
        /\ sret' = [op |-> "decrypt_bundle", result |-> IF r.ok THEN "Ok" ELSE r.err]
        /\ UNCHANGED <<policies, keys, orig, routingVars, claVars, extVars>>

VerifyBundle == \E korder \in Orders(DOMAIN keys) :
    LET r == BpsecManager_verify_bundle(keys, cur, korder)
    IN  /\ sret' = [op |-> "verify_bundle", result |-> IF r.ok THEN r.val ELSE r.err]
        /\ UNCHANGED <<policies, keys, cur, orig, prov, routingVars, claVars, extVars>>

\* the payload changes in transit
Tamper == \E p \in Payloads :
    /\ p # cur.payload
    /\ prov.ops # <<>>
    /\ ~prov.touched
    /\ cur' = [cur EXCEPT !.payload = p]
    /\ prov' = [prov EXCEPT !.touched = TRUE]
    /\ sret' = [op |-> "tamper"]
    /\ UNCHANGED <<policies, keys, orig, routingVars, claVars, extVars>>

----------------------------------------------------------------------------
(* The transport adapters: sockets, channels, the adapters' operations     *)

\* The local addresses an adapter is configured with: a fixed port, port 0
\* (the system picks a free port at every bind) and a string that is no
\* socket address.
FixedAddr == "127.0.0.1:4556"
AnyPortAddr == "127.0.0.1:0"
BadAddr == "not-an-address"
LocalAddrs == {FixedAddr, AnyPortAddr, BadAddr}

\* str::parse::<SocketAddr>
Addr_parse(addr) == IF addr = BadAddr THEN Err("InvalidArgs") ELSE Ok(addr)

TcpKinds == {"TcpCla", "transport_TcpCla"}
UdpKinds == {"UdpCla"}
Transport(kind) == IF kind \in TcpKinds THEN "tcp" ELSE "udp"

\* W is the world an adapter operation works in: [objs, loops].
\* The ports some open socket of the transport holds: the listeners and sockets
\* the adapters store, and those the running loops own.
BoundPorts(W, transport) ==
    {W.objs[j].listener : j \in {k \in 1..Len(W.objs) :
        Transport(W.objs[k].kind) = transport /\ W.objs[k].listener # None}}
    \cup {W.objs[j].socket : j \in {k \in 1..Len(W.objs) :
        Transport(W.objs[k].kind) = transport /\ W.objs[k].socket # None}}
    \cup {W.loops[l].port : l \in {k \in 1..Len(W.loops) :
        W.loops[k].transport = transport /\ W.loops[k].state = "running"}}

\* TcpListener::bind / UdpSocket::bind: the port bound, or the failure; fresh
\* names the port the system picks for port 0
Socket_bind(W, transport, addr, fresh) ==
    IF addr = BadAddr THEN Err("Protocol")
    ELSE IF addr = AnyPortAddr THEN Ok(fresh)
    ELSE IF addr \in BoundPorts(W, transport) THEN Err("Protocol")
    ELSE Ok(addr)

\* mpsc::channel(1) whose receiver the loop spawned next will own: the sender
\* is named by the index of that loop; Orphan names a sender whose receiver
\* was dropped before any loop was spawned; NoSender is Option::None
NoSender == {}
Orphan == {0}
Sender(l) == {l}

\* TcpCla::new / UdpCla::new of cla.rs and TcpCla::new of transport/mod.rs:
\* an adapter of the kind as its constructor leaves it
Cla_new(kind, local_address) ==
    [kind |-> kind, local_address |-> local_address,
     listener |-> None, socket |-> None, receive_callback |-> None,
     shutdown_tx |-> NoSender, running |-> FALSE, connections |-> {}]


Cla_protocol(a) == Transport(a.kind)


\* tokio::spawn of accept_loop / receive_loop
SpawnLoop(W, i, transport, port, callback) ==
    [W EXCEPT !.loops = Append(@, [adapter |-> i, transport |-> transport, port |-> port,
                                  callback |-> callback, signal |-> 0,
                                  stop_requested |-> FALSE, state |-> "running"])]

\* cla::TcpCla::start
TcpCla_start(W, i) ==
    LET a == W.objs[i]
        addr == Addr_parse(a.local_address)
    IN  IF ~addr.ok THEN [w |-> W, result |-> "InvalidArgs"]
        ELSE LET listener == Socket_bind(W, "tcp", addr.val, "port_a")
             IN  IF ~listener.ok THEN [w |-> W, result |-> "Protocol"]
                 ELSE LET W1 == [W EXCEPT !.objs[i].listener = listener.val]
                      IN  IF a.receive_callback = None THEN [w |-> W1, result |-> "Ok"]
                          ELSE LET new_listener == Socket_bind(W1, "tcp", addr.val, "port_b")
                               IN  IF ~new_listener.ok
                                   THEN [w |-> [W1 EXCEPT !.objs[i].shutdown_tx = Orphan],
                                         result |-> "Protocol"]
                                   ELSE [w |-> SpawnLoop(
                                                   [W1 EXCEPT !.objs[i].shutdown_tx = Sender(Len(W.loops) + 1)],
                                                   i, "tcp", new_listener.val, a.receive_callback),
                                         result |-> "Ok"]

\* mpsc::Sender::send on the sender tx: the signal is queued if the receiver
\* still exists, an error that stop ignores otherwise
Sender_send(W, tx) ==
    [W EXCEPT !.loops = [l \in 1..Len(W.loops) |->
        IF tx = Sender(l) /\ W.loops[l].state = "running"
        THEN [W.loops[l] EXCEPT !.signal = 1]
        ELSE W.loops[l]]]

\* a stop that releases the listener and leaves the shutdown sender alone
StopWithoutSignal(W, i) ==
    [w |-> [W EXCEPT !.objs[i].listener = None], result |-> "Ok"]

\* a stop that refuses an adapter without a shutdown sender
StopOnlyWhenStarted(W, i) ==
    IF W.objs[i].shutdown_tx = NoSender
    THEN [w |-> W, result |-> "NotInitialized"]
    ELSE [w |-> [Sender_send(W, W.objs[i].shutdown_tx) EXCEPT
                    !.objs[i].shutdown_tx = NoSender, !.objs[i].listener = None],
          result |-> "Ok"]

\* cla::TcpCla::stop
TcpCla_stop(W, i) ==
    LET shutdown_tx == W.objs[i].shutdown_tx
        W1 == [W EXCEPT !.objs[i].shutdown_tx = NoSender]
        W2 == IF shutdown_tx # NoSender THEN Sender_send(W1, shutdown_tx) ELSE W1
    IN  [w |-> [W2 EXCEPT !.objs[i].listener = None], result |-> "Ok"]

\* cla::TcpCla::send; connected says whether a peer accepts the connection
TcpCla_send(W, i, dest_addr, connected) ==
    LET addr == Addr_parse(dest_addr)
    IN  IF ~addr.ok THEN [w |-> W, result |-> "InvalidArgs", transmitted |-> FALSE]
        ELSE IF ~connected THEN [w |-> W, result |-> "Protocol", transmitted |-> FALSE]
        ELSE [w |-> W, result |-> "Ok", transmitted |-> TRUE]

Cla_set_receive_callback(W, i, callback) ==
    [W EXCEPT !.objs[i].receive_callback = callback]

\* cla::UdpCla::start: the loop shares the socket the adapter stores
UdpCla_start(W, i) ==
    LET a == W.objs[i]
        addr == Addr_parse(a.local_address)
    IN  IF ~addr.ok THEN [w |-> W, result |-> "InvalidArgs"]
        ELSE LET socket == Socket_bind(W, "udp", addr.val, "port_a")
             IN  IF ~socket.ok THEN [w |-> W, result |-> "Protocol"]
                 ELSE LET W1 == [W EXCEPT !.objs[i].socket = socket.val]
                      IN  IF a.receive_callback = None THEN [w |-> W1, result |-> "Ok"]
                          ELSE [w |-> SpawnLoop(
                                          [W1 EXCEPT !.objs[i].shutdown_tx = Sender(Len(W.loops) + 1)],
                                          i, "udp", socket.val, a.receive_callback),
                                result |-> "Ok"]

\* cla::UdpCla::stop
UdpCla_stop(W, i) ==
    LET shutdown_tx == W.objs[i].shutdown_tx
        W1 == [W EXCEPT !.objs[i].shutdown_tx = NoSender]
        W2 == IF shutdown_tx # NoSender THEN Sender_send(W1, shutdown_tx) ELSE W1
    IN  [w |-> [W2 EXCEPT !.objs[i].socket = None], result |-> "Ok"]

\* cla::UdpCla::send; connected says whether send_to succeeds
UdpCla_send(W, i, dest_addr, connected) ==
    IF W.objs[i].socket = None
    THEN [w |-> W, result |-> "NotInitialized", transmitted |-> FALSE]
    ELSE LET addr == Addr_parse(dest_addr)
         IN  IF ~addr.ok THEN [w |-> W, result |-> "InvalidArgs", transmitted |-> FALSE]
             ELSE IF ~connected THEN [w |-> W, result |-> "Protocol", transmitted |-> FALSE]
             ELSE [w |-> W, result |-> "Ok", transmitted |-> TRUE]

\* transport::TcpCla::start
Transport_TcpCla_start(W, i) ==
    LET listener == Socket_bind(W, "tcp", W.objs[i].local_address, "port_a")
    IN  IF ~listener.ok THEN [w |-> W, result |-> "Protocol"]
        ELSE [w |-> [W EXCEPT !.objs[i].listener = listener.val,
                              !.objs[i].running = TRUE],
              result |-> "Ok"]

\* transport::TcpCla::stop
Transport_TcpCla_stop(W, i) ==
    [w |-> [W EXCEPT !.objs[i].running = FALSE,
                     !.objs[i].listener = None,
                     !.objs[i].connections = {}],
     result |-> "Ok"]

\* transport::TcpCla::send: a stored connection to the address is reused,
\* otherwise one is opened and stored
Transport_TcpCla_send(W, i, dest_addr, connected) ==
    IF dest_addr \in W.objs[i].connections
    THEN IF connected THEN [w |-> W, result |-> "Ok", transmitted |-> TRUE]
         ELSE [w |-> W, result |-> "Protocol", transmitted |-> FALSE]
    ELSE IF dest_addr = BadAddr \/ ~connected
         THEN [w |-> W, result |-> "Protocol", transmitted |-> FALSE]
         ELSE [w |-> [W EXCEPT !.objs[i].connections = @ \cup {dest_addr}],
               result |-> "Ok", transmitted |-> TRUE]

\* an adapter that holds no bound resource and no shutdown sender
Stopped(a) ==
    /\ a.listener = None
    /\ a.socket = None
    /\ a.shutdown_tx = NoSender
    /\ ~a.running
    /\ a.connections = {}

\* the calls through the Cla trait objects
Cla_start(W, i) ==
    CASE W.objs[i].kind = "TcpCla" -> TcpCla_start(W, i)
      [] W.objs[i].kind = "UdpCla" -> UdpCla_start(W, i)
      [] W.objs[i].kind = "transport_TcpCla" -> Transport_TcpCla_start(W, i)

Cla_stop(W, i) ==
    CASE W.objs[i].kind = "TcpCla" -> TcpCla_stop(W, i)
      [] W.objs[i].kind = "UdpCla" -> UdpCla_stop(W, i)
      [] W.objs[i].kind = "transport_TcpCla" -> Transport_TcpCla_stop(W, i)

Cla_send(W, i, dest_addr, connected) ==
    CASE W.objs[i].kind = "TcpCla" -> TcpCla_send(W, i, dest_addr, connected)
      [] W.objs[i].kind = "UdpCla" -> UdpCla_send(W, i, dest_addr, connected)
      [] W.objs[i].kind = "transport_TcpCla" -> Transport_TcpCla_send(W, i, dest_addr, connected)

\* a register that replaces the adapter stored under the protocol
ClaManagerRegisterOverwriting(cs, W, i) ==
    [map |-> Put(cs, Cla_protocol(W.objs[i]), i), result |-> "Ok"]

\* cla::ClaManager: [map, result] of register / unregister
ClaManager_register(cs, W, i) ==
    LET protocol == Cla_protocol(W.objs[i])
    IN  IF protocol \in DOMAIN cs THEN [map |-> cs, result |-> "Duplicate"]
        ELSE [map |-> Put(cs, protocol, i), result |-> "Ok"]

ClaManager_unregister(cs, protocol) ==
    IF protocol \in DOMAIN cs THEN [map |-> Del(cs, protocol), result |-> "Ok"]
    ELSE [map |-> cs, result |-> "NotFound"]

\* the index of the adapter, or 0 for Option::None
ClaManager_get(cs, protocol) == IF protocol \in DOMAIN cs THEN cs[protocol] ELSE 0

ClaManager_list_protocols(cs) == DOMAIN cs

\* contacted is the set of adapters whose send was called
ClaManager_send(cs, W, protocol, dest_addr, connected) ==
    LET cla == ClaManager_get(cs, protocol)
    IN  IF cla = 0
        THEN [w |-> W, result |-> "NotFound", transmitted |-> FALSE, contacted |-> {}]
        ELSE LET r == Cla_send(W, cla, dest_addr, connected)
             IN  [w |-> r.w, result |-> r.result, transmitted |-> r.transmitted,
                  contacted |-> {cla}]

\* start_all over the first n adapters of order, the order in which
\* HashMap::values yields them; `?` leaves the loop at the first failure
RECURSIVE ClaManager_start_all(_, _, _, _)
ClaManager_start_all(cs, W, order, n) ==
    IF n = 0 THEN [w |-> W, result |-> "Ok", attempted |-> {}]
    ELSE LET before == ClaManager_start_all(cs, W, order, n - 1)
         IN  IF before.result # "Ok" THEN before
             ELSE LET r == Cla_start(before.w, cs[order[n]])
                  IN  [w |-> r.w, result |-> r.result,
                       attempted |-> before.attempted \cup {cs[order[n]]}]

RECURSIVE ClaManager_stop_all(_, _, _, _)
ClaManager_stop_all(cs, W, order, n) ==
    IF n = 0 THEN [w |-> W, result |-> "Ok", attempted |-> {}]
    ELSE LET before == ClaManager_stop_all(cs, W, order, n - 1)
         IN  IF before.result # "Ok" THEN before
             ELSE LET r == Cla_stop(before.w, cs[order[n]])
                  IN  [w |-> r.w, result |-> r.result,
                       attempted |-> before.attempted \cup {cs[order[n]]}]

----------------------------------------------------------------------------
(* Actions of the transport adapters and their manager                     *)

MaxLoops == 2

Callbacks == {"callback_1", "callback_2"}
ProtocolInputs == {"tcp", "udp", "nonexistent"}
DestAddrs == {FixedAddr, BadAddr}

World == [objs |-> cla_objs, loops |-> loops]

ClaInit(objs) ==
    /\ cla_objs = objs
    /\ clas = EmptyMap
    /\ loops = <<>>
    /\ conns = {}
    /\ cla_names = {}
    /\ cret = [op |-> "new"]

\* the world after an adapter operation; a stop also notes on the running
\* loops of the adapter that their adapter was stopped
SetWorld(W) ==
    /\ cla_objs' = W.objs
    /\ loops' = W.loops

NoteStop(W, stopped) ==
    [W EXCEPT !.loops = [l \in 1..Len(W.loops) |->
        IF W.loops[l].adapter \in stopped /\ W.loops[l].state = "running"
        THEN [W.loops[l] EXCEPT !.stop_requested = TRUE]
        ELSE W.loops[l]]]

ClaSetReceiveCallback == \E i \in 1..Len(cla_objs), c \in Callbacks :
    /\ cla_objs[i].kind \in {"TcpCla", "UdpCla"}
    /\ SetWorld(Cla_set_receive_callback(World, i, c))
    /\ cret' = [op |-> "set_receive_callback", adapter |-> i, callback |-> c]
    /\ UNCHANGED <<clas, conns, cla_names, routingVars, bpsecVars, extVars>>

ClaStart == \E i \in 1..Len(cla_objs) :
    LET r == Cla_start(World, i)
    IN  /\ Len(loops) < MaxLoops
        /\ SetWorld(r.w)
        /\ cret' = [op |-> "start", adapter |-> i, result |-> r.result]
        /\ UNCHANGED <<clas, conns, cla_names, routingVars, bpsecVars, extVars>>

ClaStop == \E i \in 1..Len(cla_objs) :
    LET r == Cla_stop(World, i)
    IN  /\ SetWorld(NoteStop(r.w, {i}))
        /\ cret' = [op |-> "stop", adapter |-> i, result |-> r.result,
                    was_stopped |-> Stopped(cla_objs[i])]
        /\ UNCHANGED <<clas, conns, cla_names, routingVars, bpsecVars, extVars>>

ClaSend == \E i \in 1..Len(cla_objs), d \in DestAddrs, connected \in BOOLEAN :
    LET r == Cla_send(World, i, d, connected)
    IN  /\ SetWorld(r.w)
        /\ cret' = [op |-> "send", adapter |-> i, result |-> r.result,
                    transmitted |-> r.transmitted]
        /\ UNCHANGED <<clas, conns, cla_names, routingVars, bpsecVars, extVars>>

\* a callback invocation; tick tells one delivery from the next
Deliver(adapter, callback) ==
    cret' = [op |-> "deliver", adapter |-> adapter, callback |-> callback,
             tick |-> IF cret.op = "deliver" THEN 1 - cret.tick ELSE 0]

\* the sender of loop l's channel exists while an adapter stores it
SenderAlive(l) == \E i \in 1..Len(cla_objs) : cla_objs[i].shutdown_tx = Sender(l)

\* receive_loop: recv_from returned a datagram
LoopReceive == \E l \in 1..Len(loops) :
    /\ loops[l].state = "running"
    /\ loops[l].transport = "udp"
    /\ Deliver(loops[l].adapter, loops[l].callback)
    /\ UNCHANGED <<cla_objs, clas, loops, conns, cla_names, routingVars, bpsecVars, extVars>>

\* accept_loop: accept returned a connection, handle_connection is spawned
LoopAccept == \E l \in 1..Len(loops) :
    /\ loops[l].state = "running"
    /\ loops[l].transport = "tcp"
    /\ conns' = conns \cup {[adapter |-> loops[l].adapter, callback |-> loops[l].callback]}
    /\ cret' = [op |-> "accept", adapter |-> loops[l].adapter]
    /\ UNCHANGED <<cla_objs, clas, loops, cla_names, routingVars, bpsecVars, extVars>>

\* accept or recv_from returned an error: the loop ends, its socket is dropped
LoopError == \E l \in 1..Len(loops) :
    /\ loops[l].state = "running"
    /\ loops' = [loops EXCEPT ![l].state = "done"]
    /\ cret' = [op |-> "loop_error", loop |-> l]
    /\ UNCHANGED <<cla_objs, clas, conns, cla_names, routingVars, bpsecVars, extVars>>

\* shutdown_rx.recv() returned: a signal was queued, or every sender is gone
LoopShutdown == \E l \in 1..Len(loops) :
    /\ loops[l].state = "running"
    /\ loops[l].signal = 1 \/ ~SenderAlive(l)
    /\ loops' = [loops EXCEPT ![l].state = "done", ![l].signal = 0]
    /\ cret' = [op |-> "loop_shutdown", loop |-> l]
    /\ UNCHANGED <<cla_objs, clas, conns, cla_names, routingVars, bpsecVars, extVars>>

\* handle_connection: read returned data
ConnDeliver == \E h \in conns :
    /\ Deliver(h.adapter, h.callback)
    /\ UNCHANGED <<cla_objs, clas, loops, conns, cla_names, routingVars, bpsecVars, extVars>>

\* handle_connection: read returned 0 or an error
ConnClose == \E h \in conns :
    /\ conns' = conns \ {h}
    /\ cret' = [op |-> "connection_closed", adapter |-> h.adapter]
    /\ UNCHANGED <<cla_objs, clas, loops, cla_names, routingVars, bpsecVars, extVars>>

\* calls made on the ClaManager
ClaRegister == \E i \in 1..Len(cla_objs) :
    LET r == ClaManager_register(clas, World, i)
    IN  /\ clas' = r.map
        /\ cla_names' = IF r.result = "Ok" THEN cla_names \cup {Cla_protocol(cla_objs[i])}
                        ELSE cla_names
        /\ cret' = [op |-> "register", adapter |-> i, result |-> r.result]
        /\ UNCHANGED <<cla_objs, loops, conns, routingVars, bpsecVars, extVars>>

ClaUnregister == \E protocol \in ProtocolInputs :
    LET r == ClaManager_unregister(clas, protocol)
    IN  /\ clas' = r.map
        /\ cla_names' = IF r.result = "Ok" THEN cla_names \ {protocol} ELSE cla_names
        /\ cret' = [op |-> "unregister", protocol |-> protocol, result |-> r.result]
        /\ UNCHANGED <<cla_objs, loops, conns, routingVars, bpsecVars, extVars>>

ClaManagerSend == \E protocol \in ProtocolInputs, d \in DestAddrs, connected \in BOOLEAN :
    LET r == ClaManager_send(clas, World, protocol, d, connected)
    IN  /\ SetWorld(r.w)
        /\ cret' = [op |-> "manager.send", protocol |-> protocol, result |-> r.result,
                    transmitted |-> r.transmitted, contacted |-> r.contacted]
        /\ UNCHANGED <<clas, conns, cla_names, routingVars, bpsecVars, extVars>>

ClaStartAll == \E order \in Orders(DOMAIN clas) :
    LET r == ClaManager_start_all(clas, World, order, Len(order))
    IN  /\ Len(loops) < MaxLoops
        /\ SetWorld(r.w)
        /\ cret' = [op |-> "start_all", order |-> order, result |-> r.result,
                    attempted |-> r.attempted]
        /\ UNCHANGED <<clas, conns, cla_names, routingVars, bpsecVars, extVars>>

ClaStopAll == \E order \in Orders(DOMAIN clas) :
    LET r == ClaManager_stop_all(clas, World, order, Len(order))
    IN  /\ SetWorld(NoteStop(r.w, r.attempted))
        /\ cret' = [op |-> "stop_all", order |-> order, result |-> r.result,
                    attempted |-> r.attempted]
        /\ UNCHANGED <<clas, conns, cla_names, routingVars, bpsecVars, extVars>>

----------------------------------------------------------------------------
(* Specifications                                                          *)

\* the other component stays as constructed
RoutingIdle == RoutingInit(<<>>, [engines |-> EmptyMap, active_engine |-> None])
SecIdle == /\ policies = EmptyMap
           /\ keys = EmptyMap
           /\ cur = SecBundle("ipn:2.1", <<>>)
           /\ orig = cur
           /\ prov = FreshProv
           /\ sret = [op |-> "new"]

ClaIdle == ClaInit(<<>>)
Unused == [op |-> "unused"]
FramedIdle == framed = Unused
MetricsIdle == metrics = Unused
SdkIdle == sdk = Unused
ExpiryIdle == expiry = Unused
ConcIdle == tasks = <<>> /\ hist = Unused
ExtIdle == FramedIdle /\ MetricsIdle /\ SdkIdle /\ ExpiryIdle /\ ConcIdle

\* one EpidemicRouting instance and its callers
InitEpidemic == RoutingInit(<<EpidemicRouting_new>>, [engines |-> EmptyMap, active_engine |-> None])
                    /\ SecIdle /\ ClaIdle /\ ExtIdle
NextEpidemic == EngineShouldForward
SpecEpidemic == InitEpidemic /\ [][NextEpidemic]_vars

\* one EpidemicRouting instance whose callers compute routes and report contacts
\* the first contact an engine is told of
StoreContact ==
    /\ engine_objs[1].contacts = <<>>
    /\ EngineUpdateContact
NextEpidemicRoutes ==
    \/ Tick
    \/ EngineComputeRoutes
    \/ StoreContact
SpecEpidemicRoutes == InitEpidemic /\ [][NextEpidemicRoutes]_vars

\* one SprayAndWaitRouting instance of any budget and its callers
InitSpray ==
    /\ \E n \in 0..MaxCopies :
           RoutingInit(<<SprayAndWaitRouting_new(n)>>, [engines |-> EmptyMap, active_engine |-> None])
    /\ SecIdle
    /\ ClaIdle
    /\ ExtIdle
NextSpray == EngineShouldForward
SpecSpray == InitSpray /\ [][NextSpray]_vars

\* a RoutingManager as RoutingManager::new leaves it, and its callers
InitManager == RoutingInit(RoutingManager_new_objs, RoutingManager_new) /\ SecIdle /\ ClaIdle /\ ExtIdle
NextManager ==
    \/ ManagerRegisterEngine
    \/ ManagerSetActiveEngine
    \/ ManagerShouldForward
    \/ ManagerComputeRoutes
    \/ ManagerUpdateContact
SpecManager == InitManager /\ [][NextManager]_vars

\* the policy and key registries of a new BpsecManager
InitBpsecRegistry == SecIdle /\ RoutingIdle /\ ClaIdle /\ ExtIdle
NextBpsecRegistry == AddPolicy \/ RemovePolicy \/ AddKey \/ RemoveKey
SpecBpsecRegistry == InitBpsecRegistry /\ [][NextBpsecRegistry]_vars

\* a BpsecManager whose policies are in place, its keyring, and the bundle its
\* orchestrator holds
InitBpsec == SecInit(PolicyMaps) /\ RoutingIdle /\ ClaIdle /\ ExtIdle
NextBpsec ==
    \/ AddKey
    \/ RemoveKey
    \/ NewBundle
    \/ ApplySecurity
    \/ DecryptBundle
    \/ VerifyBundle
    \/ Tamper
SpecBpsec == InitBpsec /\ [][NextBpsec]_vars

\* one adapter of any kind and configuration, its callers, its background
\* tasks and the network
AdapterInputs ==
    {Cla_new(kind, addr) : kind \in TcpKinds \cup UdpKinds, addr \in LocalAddrs}
InitAdapter ==
    /\ \E a \in AdapterInputs : ClaInit(<<a>>)
    /\ RoutingIdle
    /\ SecIdle
    /\ ExtIdle
NextAdapter ==
    \/ ClaSetReceiveCallback
    \/ ClaStart
    \/ ClaStop
    \/ ClaSend
    \/ LoopReceive
    \/ LoopAccept
    \/ LoopError
    \/ LoopShutdown
    \/ ConnDeliver
    \/ ConnClose
SpecAdapter == InitAdapter /\ [][NextAdapter]_vars

\* the runtime schedules every spawned task, and select! picks among its ready
\* branches at random: a ready shutdown branch is taken eventually
SpecAdapterFair == SpecAdapter /\ WF_vars(LoopShutdown)

\* a ClaManager and four adapters its callers can register: a stream adapter
\* with a callback on a fixed port, a datagram adapter on any port, a stream
\* adapter with an unparsable address and a datagram adapter on a fixed port
ClaManagerObjs ==
    <<[Cla_new("TcpCla", FixedAddr) EXCEPT !.receive_callback = "callback_1"],
      Cla_new("UdpCla", AnyPortAddr),
      Cla_new("TcpCla", BadAddr),
      Cla_new("UdpCla", FixedAddr)>>
InitClaManager == ClaInit(ClaManagerObjs) /\ RoutingIdle /\ SecIdle /\ ExtIdle
NextClaManager ==
    \/ ClaRegister
    \/ ClaUnregister
    \/ ClaManagerSend
    \/ ClaStartAll
    \/ ClaStopAll
SpecClaManager == InitClaManager /\ [][NextClaManager]_vars

----------------------------------------------------------------------------
(* The framed stream adapter of transport/mod.rs: start(), stop() and      *)
(* receive(), one step per suspension point.  The listener sits in a tokio  *)
(* RwLock, which queues its waiters in arrival order: receive() keeps its   *)
(* read guard until it returns, a writer waits until every guard is gone,   *)
(* and a reader that arrives behind a waiting writer waits as well.         *)

NumReceivers == 2
MaxFrameLen == 10000000

\* u32::from_be_bytes
U32_from_be_bytes(b) == ((b[1] * 256 + b[2]) * 256 + b[3]) * 256 + b[4]

\* the four length bytes a peer may send: 0, 2, 10,000,000, 10,000,001 and
\* 2,147,483,647
LenBufs ==
    {<<0, 0, 0, 0>>, <<0, 0, 0, 2>>, <<0, 152, 150, 128>>, <<0, 152, 150, 129>>,
     <<127, 255, 255, 255>>}
Eof == <<>>

\* a length test that also turns away a frame of exactly the ceiling
ReceiveHeaderCeilingExclusive(len_buf) ==
    LET len == U32_from_be_bytes(len_buf)
    IN  IF len >= MaxFrameLen THEN Err("Bundle too large") ELSE Ok(len)

\* receive() from the length bytes to the allocation of the body buffer: the
\* error, or the size of the buffer allocated
Framed_receive_header(len_buf) ==
    LET len == U32_from_be_bytes(len_buf)
    IN  IF len > MaxFrameLen THEN Err("Bundle too large") ELSE Ok(len)

FramedIdleCall == [pc |-> "idle", len_buf |-> Eof, allocated |-> 0]

Framed_new ==
    [listener |-> None, running |-> FALSE,
     rx |-> [r \in 1..NumReceivers |-> FramedIdleCall],
     stop_pc |-> "idle", ret |-> [op |-> "new"]]

\* the receive() calls that hold a read guard of the listener lock
Readers(f) == {r \in DOMAIN f.rx : f.rx[r].pc # "idle"}

FramedUnchanged == UNCHANGED <<routingVars, bpsecVars, claVars, concVars, metrics, sdk, expiry>>

\* start(): bind, then the listener and the running flag are written
FramedStart == \E bound \in BOOLEAN :
    /\ framed.stop_pc = "idle"
    /\ Readers(framed) = {}
    /\ framed' = IF bound
                 THEN [framed EXCEPT !.listener = "bound", !.running = TRUE,
                                     !.ret = [op |-> "start", result |-> "Ok"]]
                 ELSE [framed EXCEPT !.ret = [op |-> "start", result |-> "Protocol"]]
    /\ FramedUnchanged

\* stop() up to listener.write().await
FramedStopCall ==
    /\ framed.stop_pc = "idle"
    /\ framed' = [framed EXCEPT !.running = FALSE, !.stop_pc = "wait_listener",
                                !.ret = [op |-> "stop.call", result |-> "Pending"]]
    /\ FramedUnchanged

\* stop() from the moment the write guard is granted
FramedStopAcquire ==
    /\ framed.stop_pc = "wait_listener"
    /\ Readers(framed) = {}
    /\ framed' = [framed EXCEPT !.listener = None, !.stop_pc = "idle",
                                !.ret = [op |-> "stop", result |-> "Ok"]]
    /\ FramedUnchanged

\* receive() up to listener.accept().await
FramedReceiveCall == \E r \in 1..NumReceivers :
    /\ framed.rx[r].pc = "idle"
    /\ framed.stop_pc = "idle"
    /\ framed' = IF framed.listener = None
                 THEN [framed EXCEPT !.ret = [op |-> "receive.call", r |-> r,
                                              result |-> "NotInitialized"]]
                 ELSE [framed EXCEPT !.rx[r] = [FramedIdleCall EXCEPT !.pc = "accept"],
                                     !.ret = [op |-> "receive.call", r |-> r,
                                              result |-> "Pending"]]
    /\ FramedUnchanged

\* accept() returned: a connection, or an error
FramedReceiveAccept == \E r \in 1..NumReceivers, ok \in BOOLEAN :
    /\ framed.rx[r].pc = "accept"
    /\ framed' = IF ok
                 THEN [framed EXCEPT !.rx[r].pc = "read_len",
                                     !.ret = [op |-> "receive.accept", r |-> r,
                                              result |-> "Pending"]]
                 ELSE [framed EXCEPT !.rx[r] = FramedIdleCall,
                                     !.ret = [op |-> "receive.accept", r |-> r,
                                              result |-> "Protocol"]]
    /\ FramedUnchanged

\* read_exact of the length returned: four bytes, or an error (Eof)
FramedReceiveHeader == \E r \in 1..NumReceivers, len_buf \in LenBufs \cup {Eof} :
    LET h == Framed_receive_header(len_buf)
    IN  /\ framed.rx[r].pc = "read_len"
        /\ framed' =
             IF len_buf = Eof
             THEN [framed EXCEPT !.rx[r] = FramedIdleCall,
                                 !.ret = [op |-> "receive.header", r |-> r, len_buf |-> Eof,
                                          result |-> "Protocol",
                                          reason |-> "Failed to read bundle length",
                                          allocated |-> 0]]
             ELSE IF ~h.ok
             THEN [framed EXCEPT !.rx[r] = FramedIdleCall,
                                 !.ret = [op |-> "receive.header", r |-> r,
                                          len_buf |-> len_buf, result |-> "Protocol",
                                          reason |-> h.err, allocated |-> 0]]
             ELSE [framed EXCEPT !.rx[r] = [pc |-> "read_body", len_buf |-> len_buf,
                                            allocated |-> h.val],
                                 !.ret = [op |-> "receive.header", r |-> r,
                                          len_buf |-> len_buf, result |-> "Pending",
                                          reason |-> "", allocated |-> h.val]]
        /\ FramedUnchanged

\* read_exact of the body returned (an error, bytes that are no bundle, or a
\* bundle) and deserialize_bundle gave the result
FramedReceiveBody == \E r \in 1..NumReceivers, body \in {"eof", "garbage", "bundle"} :
    /\ framed.rx[r].pc = "read_body"
    /\ framed' = [framed EXCEPT
          !.rx[r] = FramedIdleCall,
          !.ret = [op |-> "receive.body", r |-> r, len_buf |-> framed.rx[r].len_buf,
                   result |-> IF body = "bundle" THEN "Ok" ELSE "Protocol",
                   reason |-> CASE body = "eof" -> "Failed to read bundle data"
                                [] body = "garbage" -> "Failed to deserialize bundle"
                                [] body = "bundle" -> "",
                   allocated |-> framed.rx[r].allocated]]
    /\ FramedUnchanged

InitFramed == framed = Framed_new /\ MetricsIdle /\ SdkIdle /\ ExpiryIdle
              /\ RoutingIdle /\ SecIdle /\ ClaIdle /\ ConcIdle
NextFramed ==
    \/ FramedStart
    \/ FramedStopCall
    \/ FramedStopAcquire
    \/ FramedReceiveCall
    \/ FramedReceiveAccept
    \/ FramedReceiveHeader
    \/ FramedReceiveBody
SpecFramed == InitFramed /\ [][NextFramed]_vars

----------------------------------------------------------------------------
(* The MetricsCollector of metrics.rs.  Every atomic operation on a counter *)
(* and every critical section of a queue is one step of the call that makes *)
(* it, so that the calls of several callers interleave as threads do.       *)

NumCallers == 2
MaxMetricCalls == 3
MaxCapacity == 2
\* u64 counters are modelled on words of WordModulus values, so that the
\* wrap-around of fetch_add is within reach
WordModulus == 4

ByteInputs == {1, WordModulus - 1}
CounterOps == {"record_bundle_sent", "record_bundle_received", "record_bundle_forwarded",
               "get_metrics"}
QueueOps == {"record_latency", "snapshot", "record_bundle_sent"}

\* AtomicU64::fetch_add: the new value of the counter
AtomicU64_fetch_add(v, n) == (v + n) % WordModulus

\* a push that, when the bound is exceeded, drops the entry just pushed
BoundedPushEvictingNewest(q, x, max) ==
    LET pushed == Append(q, x)
    IN  IF Len(pushed) > max THEN q ELSE pushed

\* VecDeque::push_back followed by one pop_front if the bound is exceeded
BoundedPush(q, x, max) ==
    LET pushed == Append(q, x)
    IN  IF Len(pushed) > max THEN Tail(pushed) ELSE pushed

\* PerformanceMetrics::new, the counters of it
PerformanceMetrics_new ==
    [bundles_sent |-> 0, bundles_received |-> 0, bundles_forwarded |-> 0,
     bytes_sent |-> 0, bytes_received |-> 0]

\* MetricsCollector::new().with_history_size(h).with_latency_samples(l)
MetricsCollector_new(h, l) ==
    [bundles_sent |-> 0, bundles_received |-> 0, bundles_forwarded |-> 0,
     bytes_sent |-> 0, bytes_received |-> 0,
     latency_measurements |-> <<>>, historical_metrics |-> <<>>,
     max_history_size |-> h, max_latency_samples |-> l]

\* the counters of the collector at this instant
Counters(m) ==
    [bundles_sent |-> m.bundles_sent, bundles_received |-> m.bundles_received,
     bundles_forwarded |-> m.bundles_forwarded,
     bytes_sent |-> m.bytes_sent, bytes_received |-> m.bytes_received]

\* the collector after atomic operation number pc of the call
MetricsCollector_record_bundle_sent(m, bytes, pc) ==
    IF pc = 0 THEN [m EXCEPT !.bundles_sent = AtomicU64_fetch_add(@, 1)]
    ELSE [m EXCEPT !.bytes_sent = AtomicU64_fetch_add(@, bytes)]

\* a record_bundle_received that adds its bytes to the counter of bytes sent
RecordReceivedIntoBytesSent(m, bytes, pc) ==
    IF pc = 0 THEN [m EXCEPT !.bundles_received = AtomicU64_fetch_add(@, 1)]
    ELSE [m EXCEPT !.bytes_sent = AtomicU64_fetch_add(@, bytes)]

MetricsCollector_record_bundle_received(m, bytes, pc) ==
    IF pc = 0 THEN [m EXCEPT !.bundles_received = AtomicU64_fetch_add(@, 1)]
    ELSE [m EXCEPT !.bytes_received = AtomicU64_fetch_add(@, bytes)]

MetricsCollector_record_bundle_forwarded(m, bytes, pc) ==
    IF pc = 0 THEN [m EXCEPT !.bundles_forwarded = AtomicU64_fetch_add(@, 1)]
    ELSE [m EXCEPT !.bytes_sent = AtomicU64_fetch_add(@, bytes)]

MetricsCollector_record_latency(m, measurement) ==
    [m EXCEPT !.latency_measurements = BoundedPush(@, measurement, m.max_latency_samples)]

\* get_metrics: the view after load number pc
MetricsCollector_get_metrics(m, view, pc) ==
    CASE pc = 0 -> [view EXCEPT !.bundles_sent = m.bundles_sent]
      [] pc = 1 -> [view EXCEPT !.bundles_received = m.bundles_received]
      [] pc = 2 -> [view EXCEPT !.bundles_forwarded = m.bundles_forwarded]
      [] pc = 3 -> [view EXCEPT !.bytes_sent = m.bytes_sent]
      [] pc = 4 -> [view EXCEPT !.bytes_received = m.bytes_received]
GetMetricsLoads == 5

\* snapshot, after its get_metrics: the critical section of the history
MetricsCollector_snapshot(m, view) ==
    [m EXCEPT !.historical_metrics = BoundedPush(@, view, m.max_history_size)]

\* the atomic operations a call consists of
MetricSteps(op) ==
    CASE op \in {"record_bundle_sent", "record_bundle_received", "record_bundle_forwarded"} -> 2
      [] op = "record_latency" -> 1
      [] op = "get_metrics" -> GetMetricsLoads
      [] op = "snapshot" -> GetMetricsLoads + 1

\* step number call.pc of the call: the collector and the call's view after it
MetricsCollector_step(m, call) ==
    CASE call.op = "record_bundle_sent" ->
            [m |-> MetricsCollector_record_bundle_sent(m, call.bytes, call.pc), view |-> call.view]
      [] call.op = "record_bundle_received" ->
            [m |-> MetricsCollector_record_bundle_received(m, call.bytes, call.pc), view |-> call.view]
      [] call.op = "record_bundle_forwarded" ->
            [m |-> MetricsCollector_record_bundle_forwarded(m, call.bytes, call.pc), view |-> call.view]
      [] call.op = "record_latency" ->
            [m |-> MetricsCollector_record_latency(m, call.id), view |-> call.view]
      [] call.op \in {"get_metrics", "snapshot"} /\ call.pc < GetMetricsLoads ->
            [m |-> m, view |-> MetricsCollector_get_metrics(m, call.view, call.pc)]
      [] call.op = "snapshot" /\ call.pc = GetMetricsLoads ->
            [m |-> MetricsCollector_snapshot(m, call.view), view |-> call.view]

NoCall == [op |-> "idle"]
MetricsHistory ==
    [started |-> 0, sent_calls |-> 0, sent_bytes |-> 0, received_calls |-> 0,
     received_bytes |-> 0, forwarded_calls |-> 0,
     latency_log |-> <<>>, history_log |-> <<>>]

Metrics_new(h, l) ==
    [c |-> MetricsCollector_new(h, l), callers |-> [i \in 1..NumCallers |-> NoCall],
     hist |-> MetricsHistory, ret |-> [op |-> "new"]]

\* the state after caller i took the next step of its call: the collector,
\* the call (or NoCall when it returned), what every get_metrics in progress
\* has seen of the counters, the history, and the value returned
AfterStep(i, call) ==
    LET r == MetricsCollector_step(metrics.c, call)
        done == call.pc + 1 = MetricSteps(call.op)
        mine == IF done THEN NoCall
                ELSE [call EXCEPT !.pc = @ + 1, !.view = r.view,
                                  !.seen = @ \cup {Counters(r.m)}]
        h == metrics.hist
    IN  [metrics EXCEPT
           !.c = r.m,
           !.callers = [j \in 1..NumCallers |->
               IF j = i THEN mine
               ELSE IF metrics.callers[j].op \in {"get_metrics", "snapshot"}
                    THEN [metrics.callers[j] EXCEPT !.seen = @ \cup {Counters(r.m)}]
                    ELSE metrics.callers[j]],
           !.hist = [h EXCEPT
               !.latency_log = IF call.op = "record_latency" THEN Append(@, call.id) ELSE @,
               !.history_log = IF call.op = "snapshot" /\ done THEN Append(@, r.view) ELSE @],
           !.ret = IF done
                   THEN [op |-> call.op, caller |-> i, view |-> r.view,
                         seen |-> call.seen \cup {Counters(r.m)}]
                   ELSE [op |-> "pending", caller |-> i]]

MetricsUnchanged == UNCHANGED <<routingVars, bpsecVars, claVars, concVars, framed, sdk, expiry>>

\* a caller makes a call, one of ops: its first step (the callers are
\* interchangeable: the idle caller of the lowest number stands for any)
MetricsCallOf(ops) == \E i \in 1..NumCallers, op \in ops, bytes \in ByteInputs :
    LET h == metrics.hist
        call == [op |-> op, pc |-> 0, bytes |-> bytes, id |-> h.started + 1,
                 view |-> PerformanceMetrics_new, seen |-> {Counters(metrics.c)}]
        counted == [h EXCEPT
            !.started = @ + 1,
            !.sent_calls = IF op = "record_bundle_sent" THEN @ + 1 ELSE @,
            !.sent_bytes = IF op = "record_bundle_sent" THEN (@ + bytes) % WordModulus ELSE @,
            !.received_calls = IF op = "record_bundle_received" THEN @ + 1 ELSE @,
            !.received_bytes = IF op = "record_bundle_received" THEN (@ + bytes) % WordModulus ELSE @,
            !.forwarded_calls = IF op = "record_bundle_forwarded" THEN @ + 1 ELSE @]
    IN  /\ metrics.callers[i] = NoCall
        /\ \A j \in 1..(i - 1) : metrics.callers[j] # NoCall
        /\ h.started < MaxMetricCalls
        /\ op \in {"record_latency", "get_metrics", "snapshot"} => bytes = 1
        /\ LET after == AfterStep(i, call)
           IN  metrics' = [after EXCEPT !.hist = [counted EXCEPT
                              !.latency_log = after.hist.latency_log,
                              !.history_log = after.hist.history_log]]
        /\ MetricsUnchanged

MetricsCall == MetricsCallOf(CounterOps)
MetricsQueueCall == MetricsCallOf(QueueOps)

\* caller i's call takes its next step
MetricsStep == \E i \in 1..NumCallers :
    /\ metrics.callers[i] # NoCall
    /\ metrics' = AfterStep(i, metrics.callers[i])
    /\ MetricsUnchanged

\* a collector with the default capacities and the callers of its counters
DefaultCapacity == MaxCapacity
InitMetrics ==
    /\ metrics = Metrics_new(DefaultCapacity, DefaultCapacity)
    /\ FramedIdle /\ SdkIdle /\ ExpiryIdle
    /\ RoutingIdle /\ SecIdle /\ ClaIdle /\ ConcIdle
NextMetrics ==
    \/ MetricsCall
    \/ MetricsStep
SpecMetrics == InitMetrics /\ [][NextMetrics]_vars

\* a collector of any capacities and the callers of its queues
InitMetricsQueues ==
    /\ \E h \in 0..MaxCapacity, l \in 0..MaxCapacity : metrics = Metrics_new(h, l)
    /\ FramedIdle /\ SdkIdle /\ ExpiryIdle
    /\ RoutingIdle /\ SecIdle /\ ClaIdle /\ ConcIdle
NextMetricsQueues ==
    \/ MetricsQueueCall
    \/ MetricsStep
SpecMetricsQueues == InitMetricsQueues /\ [][NextMetricsQueues]_vars

-----------------------------------------------------------------------------
(* The BpSdk of core.rs                                                    *)
(* The bundle-protocol engine behind ffi.rs is outside the program: every  *)
(* result code it returns is an input of the call that asks for it.        *)

NumSdkEids == 2
MaxEndpoints == 3
MaxAttaches == 3

SdkEids == 1..NumSdkEids
\* result codes of the engine: 0 is success
IonResults == {0, -2, 7}

\* impl From<i32> for BpError, on the codes above
BpError_from(code) ==
    CASE code = -1 -> "InvalidArgs"
      [] code = -2 -> "NotInitialized"
      [] code = -5 -> "NotFound"
      [] code = -6 -> "Duplicate"
      [] OTHER -> "Ion"

from_c_result(code) == IF code = 0 THEN Ok("unit") ELSE Err(BpError_from(code))

\* an Endpoint is shared by reference: id tells one Endpoint object from another
Endpoint_new(eid, id) == [eid |-> eid, id |-> id, sap |-> FALSE]

\* Endpoint::open, as receive() calls it
Endpoint_open(e, open_result) ==
    IF e.sap THEN [e |-> e, ret |-> Ok("sap")]
    ELSE IF open_result # 0 THEN [e |-> e, ret |-> from_c_result(open_result)]
    ELSE [e |-> [e EXCEPT !.sap = TRUE], ret |-> Ok("sap")]

Endpoint_close(e, close_result) ==
    [e |-> [e EXCEPT !.sap = FALSE],
     ret |-> IF e.sap THEN from_c_result(close_result) ELSE Ok("unit")]

BpSdk_new == [initialized |-> FALSE, endpoints |-> EmptyMap]

BpSdk_is_initialized(s) == s.initialized

\* init that keeps the flag it swapped in when the attach fails
InitLeavingFlagSet(s, attach_result) ==
    IF s.initialized THEN [s |-> s, ret |-> Ok("unit"), attached |-> FALSE]
    ELSE [s |-> [s EXCEPT !.initialized = TRUE],
          ret |-> IF attach_result # 0 THEN Err(BpError_from(attach_result)) ELSE Ok("unit"),
          attached |-> TRUE]

\* attached: whether the call reached bp_attach
BpSdk_init(s, attach_result) ==
    IF s.initialized THEN [s |-> s, ret |-> Ok("unit"), attached |-> FALSE]
    ELSE IF attach_result # 0
         THEN [s |-> [s EXCEPT !.initialized = FALSE],
               ret |-> Err(BpError_from(attach_result)), attached |-> TRUE]
         ELSE [s |-> [s EXCEPT !.initialized = TRUE], ret |-> Ok("unit"), attached |-> TRUE]

\* the loop of shutdown over endpoints.values(), in the map's iteration
\* order; the first close that fails ends the loop
RECURSIVE CloseAll(_, _, _, _)
CloseAll(eps, order, close_results, n) ==
    IF n > Len(order) THEN [eps |-> eps, ret |-> Ok("unit")]
    ELSE LET r == Endpoint_close(eps[order[n]], close_results[order[n]])
             closed == [eps EXCEPT ![order[n]] = r.e]
         IN  IF r.ret.ok THEN CloseAll(closed, order, close_results, n + 1)
             ELSE [eps |-> closed, ret |-> r.ret]

BpSdk_shutdown(s, order, close_results, detach_result) ==
    IF ~s.initialized THEN [s |-> s, ret |-> Err("NotInitialized")]
    ELSE LET down == [s EXCEPT !.initialized = FALSE]
             c == CloseAll(s.endpoints, order, close_results, 1)
         IN  IF ~c.ret.ok THEN [s |-> [down EXCEPT !.endpoints = c.eps], ret |-> c.ret]
             ELSE [s |-> [down EXCEPT !.endpoints = EmptyMap],
                   ret |-> from_c_result(detach_result)]

\* create_endpoint that inserts without looking for the EID first
CreateEndpointOverwriting(s, eid, id) ==
    IF ~BpSdk_is_initialized(s) THEN [s |-> s, ret |-> Err("NotInitialized")]
    ELSE [s |-> [s EXCEPT !.endpoints = Put(@, eid, Endpoint_new(eid, id))],
          ret |-> IF eid \in DOMAIN s.endpoints THEN Err("Duplicate")
                  ELSE Ok(Endpoint_new(eid, id))]

BpSdk_create_endpoint(s, eid, id) ==
    IF ~BpSdk_is_initialized(s) THEN [s |-> s, ret |-> Err("NotInitialized")]
    ELSE IF eid \in DOMAIN s.endpoints THEN [s |-> s, ret |-> Err("Duplicate")]
    ELSE [s |-> [s EXCEPT !.endpoints = Put(@, eid, Endpoint_new(eid, id))],
          ret |-> Ok(Endpoint_new(eid, id))]

\* Option<Arc<Endpoint>> as a set of at most one endpoint
BpSdk_get_endpoint(s, eid) ==
    IF eid \in DOMAIN s.endpoints THEN {s.endpoints[eid]} ELSE {}

BpSdk_remove_endpoint(s, eid, close_result) ==
    IF eid \in DOMAIN s.endpoints
    THEN [s |-> [s EXCEPT !.endpoints = Del(@, eid)],
          ret |-> Endpoint_close(s.endpoints[eid], close_result).ret]
    ELSE [s |-> s, ret |-> Ok("unit")]

\* sdk.s is the BpSdk; attaches counts the bp_attach calls and created the
\* Endpoint objects made so far; ret is the last call and what it returned
Sdk_new == [s |-> BpSdk_new, attaches |-> 0, created |-> 0, ret |-> [op |-> "new"]]

SdkUnchanged == UNCHANGED <<routingVars, bpsecVars, claVars, concVars, framed, metrics, expiry>>

\* the results of the bp_close calls a call can make: an endpoint without a
\* SAP makes none
CloseResults(eps) ==
    {f \in [DOMAIN eps -> IonResults] : \A eid \in DOMAIN eps : ~eps[eid].sap => f[eid] = 0}

SdkInit ==
    /\ sdk.attaches < MaxAttaches
    /\ \E attach_result \in IonResults :
          LET r == BpSdk_init(sdk.s, attach_result)
          IN  sdk' = [sdk EXCEPT !.s = r.s,
                                 !.attaches = @ + (IF r.attached THEN 1 ELSE 0),
                                 !.ret = [op |-> "init", ret |-> r.ret, attached |-> r.attached]]
    /\ SdkUnchanged

SdkShutdown ==
    /\ \E order \in Orders(DOMAIN sdk.s.endpoints), detach_result \in IonResults,
          close_results \in CloseResults(sdk.s.endpoints) :
          LET r == BpSdk_shutdown(sdk.s, order, close_results, detach_result)
          IN  sdk' = [sdk EXCEPT !.s = r.s,
                                 !.ret = [op |-> "shutdown", ret |-> r.ret,
                                          registered |-> Cardinality(DOMAIN sdk.s.endpoints)]]
    /\ SdkUnchanged

SdkCreateEndpoint ==
    /\ sdk.created < MaxEndpoints
    /\ \E eid \in SdkEids :
          LET r == BpSdk_create_endpoint(sdk.s, eid, sdk.created + 1)
          IN  sdk' = [sdk EXCEPT !.s = r.s,
                                 !.created = @ + (IF r.ret.ok THEN 1 ELSE 0),
                                 !.ret = [op |-> "create_endpoint", eid |-> eid, ret |-> r.ret]]
    /\ SdkUnchanged

SdkGetEndpoint ==
    /\ \E eid \in SdkEids :
          sdk' = [sdk EXCEPT !.ret = [op |-> "get_endpoint", eid |-> eid,
                                      ret |-> BpSdk_get_endpoint(sdk.s, eid)]]
    /\ SdkUnchanged

SdkRemoveEndpoint ==
    /\ \E eid \in SdkEids, close_results \in CloseResults(sdk.s.endpoints) :
          LET close_result == IF eid \in DOMAIN close_results THEN close_results[eid] ELSE 0
              r == BpSdk_remove_endpoint(sdk.s, eid, close_result)
          IN  sdk' = [sdk EXCEPT !.s = r.s,
                                 !.ret = [op |-> "remove_endpoint", eid |-> eid, ret |-> r.ret]]
    /\ SdkUnchanged

\* a holder of a registered endpoint calls receive(), which opens it first
SdkEndpointOpen ==
    /\ \E eid \in DOMAIN sdk.s.endpoints, open_result \in IonResults :
          LET r == Endpoint_open(sdk.s.endpoints[eid], open_result)
          IN  sdk' = [sdk EXCEPT !.s.endpoints[eid] = r.e,
                                 !.ret = [op |-> "open", eid |-> eid, ret |-> r.ret]]
    /\ SdkUnchanged

InitSdk == sdk = Sdk_new /\ FramedIdle /\ MetricsIdle /\ ExpiryIdle
           /\ RoutingIdle /\ SecIdle /\ ClaIdle /\ ConcIdle
NextSdk ==
    \/ SdkInit
    \/ SdkShutdown
    \/ SdkCreateEndpoint
    \/ SdkGetEndpoint
    \/ SdkRemoveEndpoint
    \/ SdkEndpointOpen
SpecSdk == InitSdk /\ [][NextSdk]_vars

-----------------------------------------------------------------------------
(* Bundle::is_expired of types.rs                                          *)
(* The millisecond counts are u64 words, modelled on words of MsecModulus  *)
(* values; a Duration counts in units finer than a millisecond and ranges  *)
(* over more milliseconds than a word holds.                               *)

MsecModulus == 4
TicksPerMsec == 2

Msecs == 0..(MsecModulus - 1)
Durations == 0..(2 * MsecModulus * TicksPerMsec - 1)

\* Duration::as_millis, a u128: whole milliseconds
Duration_as_millis(d) == d \div TicksPerMsec

\* `as u64` of a u128 keeps the low word
AsU64(n) == n % MsecModulus

\* u64::saturating_sub
Saturating_sub(a, b) == IF a > b THEN a - b ELSE 0

\* is_expired, with now_msec the msec of BpTimestamp::now()
Bundle_is_expired(bundle, now_msec) ==
    LET elapsed == Saturating_sub(now_msec, bundle.creation_time)
    IN  elapsed > AsU64(Duration_as_millis(bundle.ttl))

\* expiry.now is the system clock in milliseconds; expired_since records
\* that a call returned true and the clock has not been set back since
Expiry_new(creation_time, ttl, now_msec) ==
    [bundle |-> [creation_time |-> creation_time, ttl |-> ttl], now |-> now_msec,
     expired_since |-> FALSE, ret |-> [op |-> "new"]]

ExpiryUnchanged == UNCHANGED <<routingVars, bpsecVars, claVars, concVars, framed, metrics, sdk>>

ExpiryTick ==
    /\ expiry.now < MsecModulus - 1
    /\ expiry' = [expiry EXCEPT !.now = @ + 1, !.ret = [op |-> "tick"]]
    /\ ExpiryUnchanged

\* the system clock is set back
ExpiryClockBack ==
    /\ \E t \in Msecs :
          /\ t < expiry.now
          /\ expiry' = [expiry EXCEPT !.now = t, !.expired_since = FALSE,
                                      !.ret = [op |-> "clock_back"]]
    /\ ExpiryUnchanged

ExpiryIsExpired ==
    /\ LET v == Bundle_is_expired(expiry.bundle, expiry.now)
       IN  expiry' = [expiry EXCEPT !.expired_since = @ \/ v,
                                    !.ret = [op |-> "is_expired", value |-> v]]
    /\ ExpiryUnchanged

InitExpiry ==
    /\ \E creation_time \in Msecs, ttl \in Durations, now_msec \in Msecs :
          expiry = Expiry_new(creation_time, ttl, now_msec)
    /\ FramedIdle /\ MetricsIdle /\ SdkIdle
    /\ RoutingIdle /\ SecIdle /\ ClaIdle /\ ConcIdle
NextExpiry ==
    \/ ExpiryTick
    \/ ExpiryClockBack
    \/ ExpiryIsExpired
SpecExpiry == InitExpiry /\ [][NextExpiry]_vars

-----------------------------------------------------------------------------
(* One ProphetRouting instance and its callers                             *)
(* hist.fresh is each neighbour's delivery probability as update_contact   *)
(* last left it; hist.calls counts the calls made.                         *)

ProphetHist == [fresh |-> EmptyMap, calls |-> 0]

ProphetUnchanged ==
    UNCHANGED <<now, bundle_dest, engines, active_engine, rcalls, called, granted, regranted,
                bpsecVars, claVars, framed, metrics, sdk, expiry, tasks>>

ProphetUpdateContact == \E c \in ForwardContacts :
    LET e == RoutingEngine_update_contact(engine_objs[1], c)
    IN  /\ hist.calls < MaxCalls
        /\ engine_objs' = [engine_objs EXCEPT ![1] = e]
        /\ hist' = [fresh |-> Put(hist.fresh, c.neighbor_eid,
                                  e.delivery_probabilities[c.neighbor_eid]),
                    calls |-> hist.calls + 1]
        /\ rret' = [op |-> "update_contact", engine |-> 1, contact |-> c]
        /\ ProphetUnchanged

\* compute_routes over one open contact: the route's confidence is the
\* probability read for the contact's neighbour
ProphetComputeRoutes == \E d \in Eids, c \in ForwardContacts :
    LET r == RoutingEngine_compute_routes(engine_objs[1], d, <<c>>)
    IN  /\ hist.calls < MaxCalls
        /\ engine_objs' = [engine_objs EXCEPT ![1] = r.eng]
        /\ hist' = [hist EXCEPT !.calls = @ + 1]
        /\ rret' = [op |-> "compute_routes", engine |-> 1, dest_eid |-> d,
                    contacts |-> <<c>>, result |-> r.result]
        /\ ProphetUnchanged

ProphetShouldForward == \E id \in BundleIds, c \in ForwardContacts :
    LET r == RoutingEngine_should_forward(engine_objs[1], Bundle(id), c)
    IN  /\ hist.calls < MaxCalls
        /\ engine_objs' = [engine_objs EXCEPT ![1] = r.eng]
        /\ hist' = [hist EXCEPT !.calls = @ + 1]
        /\ rret' = [op |-> "should_forward", engine |-> 1, bundle |-> id,
                    neighbor |-> c.neighbor_eid, result |-> r.result]
        /\ ProphetUnchanged

InitProphet ==
    /\ RoutingInit(<<ProphetRouting_new>>, [engines |-> EmptyMap, active_engine |-> None])
    /\ SecIdle /\ ClaIdle
    /\ FramedIdle /\ MetricsIdle /\ SdkIdle /\ ExpiryIdle
    /\ tasks = <<>>
    /\ hist = ProphetHist
NextProphet ==
    \/ Tick
    \/ ProphetUpdateContact
    \/ ProphetComputeRoutes
    \/ ProphetShouldForward
SpecProphet == InitProphet /\ [][NextProphet]_vars

-----------------------------------------------------------------------------
(* Concurrent callers of one EpidemicRouting                               *)
(* should_forward takes the history lock twice: as a reader in             *)
(* should_replicate and as a writer in update_encounter; other calls can   *)
(* run between the two.                                                    *)

Callers == 1..NumCallers
IdleTasks == [i \in Callers |-> NoCall]

ForwardUnchanged ==
    UNCHANGED <<now, bundle_dest, engines, active_engine, rcalls,
                bpsecVars, claVars, framed, metrics, sdk, expiry, hist>>

\* should_forward returns result to caller i
ForwardReturn(i, id, neighbor_eid, result) ==
    LET t == <<1, id, neighbor_eid>>
    IN  /\ tasks' = [tasks EXCEPT ![i] = NoCall]
        /\ called' = called \cup {t}
        /\ granted' = IF result THEN granted \cup {t} ELSE granted
        /\ regranted' = IF result /\ t \in granted THEN regranted \cup {t} ELSE regranted
        /\ rret' = [op |-> "should_forward", engine |-> 1, bundle |-> id,
                    neighbor |-> neighbor_eid, result |-> result]

\* the call and its test for direct delivery
\* (callers are interchangeable: the free caller of least index makes the call)
ForwardCall(i) == \E id \in BundleIds, c \in ForwardContacts :
    /\ tasks[i] = NoCall
    /\ \A j \in 1..(i - 1) : tasks[j] # NoCall
    /\ IF Bundle(id).dest_eid = c.neighbor_eid
       THEN ForwardReturn(i, id, c.neighbor_eid, TRUE)
       ELSE /\ tasks' = [tasks EXCEPT ![i] = [op |-> "should_forward", pc |-> "should_replicate",
                                              bundle |-> id, contact |-> c]]
            /\ UNCHANGED <<called, granted, regranted, rret>>
    /\ UNCHANGED engine_objs
    /\ ForwardUnchanged

\* should_replicate under the read lock; a false answer is returned at once
ForwardShouldReplicate(i) ==
    /\ tasks[i] # NoCall
    /\ tasks[i].pc = "should_replicate"
    /\ IF EpidemicRouting_should_replicate(engine_objs[1], Bundle(tasks[i].bundle), tasks[i].contact)
       THEN /\ tasks' = [tasks EXCEPT ![i].pc = "update_encounter"]
            /\ UNCHANGED <<called, granted, regranted, rret>>
       ELSE ForwardReturn(i, tasks[i].bundle, tasks[i].contact.neighbor_eid, FALSE)
    /\ UNCHANGED engine_objs
    /\ ForwardUnchanged

\* update_encounter under the write lock, and the return of true
ForwardUpdateEncounter(i) ==
    /\ tasks[i] # NoCall
    /\ tasks[i].pc = "update_encounter"
    /\ engine_objs' = [engine_objs EXCEPT ![1] =
           EpidemicRouting_update_encounter(@, tasks[i].bundle, tasks[i].contact.neighbor_eid)]
    /\ ForwardReturn(i, tasks[i].bundle, tasks[i].contact.neighbor_eid, TRUE)
    /\ ForwardUnchanged

InitEpidemicCallers ==
    /\ RoutingInit(<<EpidemicRouting_new>>, [engines |-> EmptyMap, active_engine |-> None])
    /\ SecIdle /\ ClaIdle
    /\ FramedIdle /\ MetricsIdle /\ SdkIdle /\ ExpiryIdle
    /\ tasks = IdleTasks
    /\ hist = Unused
NextEpidemicCallers ==
    \/ \E i \in Callers : ForwardCall(i)
    \/ \E i \in Callers : ForwardShouldReplicate(i)
    \/ \E i \in Callers : ForwardUpdateEncounter(i)
SpecEpidemicCallers == InitEpidemicCallers /\ [][NextEpidemicCallers]_vars

-----------------------------------------------------------------------------
(* The locks of the routing components                                     *)
(* Concurrent callers of a RoutingManager and of its engines, one step per *)
(* lock acquisition.  A task is [op, via, pc, a, e, v, held]: the call, how *)
(* it reached the engine, its position, its argument, the engine instance, *)
(* a local value (a record) and the <<lock, mode>> pairs it holds.  A lock is          *)
(* <<instance, field>>, instance 0 being the manager.                      *)

MaxLockCalls == 3

EnginesLock == <<0, "engines">>
ActiveLock == <<0, "active_engine">>
ContactsLock(p) == <<p, "contacts">>
ProbabilitiesLock(p) == <<p, "delivery_probabilities">>
EncountersLock(p) == <<p, "last_encounter">>

HeldBy(j) == IF tasks[j] = NoCall THEN {} ELSE tasks[j].held

\* should_forward returns on direct delivery before it takes any lock
DirectDelivery(t) ==
    t.op = "should_forward" /\ t.pc = 30 /\ bundle_dest[t.a.bundle] = t.a.contact.neighbor_eid

\* the lock and mode the next statement of task t asks for, or <<>>
Request(t) ==
    IF t = NoCall THEN <<>>
    ELSE CASE t.op = "register_engine" /\ t.pc = 1 -> <<EnginesLock, "w">>
           [] t.op = "register_engine" /\ t.pc = 2 -> <<ActiveLock, "r">>
           [] t.op = "register_engine" /\ t.pc = 3 /\ t.v.flag -> <<ActiveLock, "w">>
           [] t.op = "set_active_engine" /\ t.pc = 1 -> <<EnginesLock, "r">>
           [] t.op = "set_active_engine" /\ t.pc = 2 /\ t.v.flag -> <<ActiveLock, "w">>
           [] t.op = "list_engines" -> <<EnginesLock, "r">>
           [] t.op # "register_engine" /\ t.op # "set_active_engine" /\ t.pc = 1 -> <<ActiveLock, "r">>
           [] t.op # "register_engine" /\ t.op # "set_active_engine" /\ t.pc = 2 -> <<EnginesLock, "r">>
           [] t.pc = 10 -> <<ContactsLock(t.e), "w">>
           [] t.pc = 11 -> <<ProbabilitiesLock(t.e), "w">>
           [] t.pc = 12 -> <<EncountersLock(t.e), "w">>
           [] t.pc \in {20, 30, 33} /\ ~DirectDelivery(t) -> <<ProbabilitiesLock(t.e), "w">>
           [] t.pc \in {21, 31, 34} -> <<EncountersLock(t.e), "r">>
           [] t.pc \in {22, 32, 35} -> <<ProbabilitiesLock(t.e), "r">>
           [] OTHER -> <<>>

\* parking_lot's RwLock: a writer needs the lock free; a reader needs it free
\* of writers, and waits behind a writer that is waiting for a held lock
Holders(l) == {j \in Callers : \E h \in HeldBy(j) : h[1] = l}
Writers(l) == {j \in Callers : <<l, "w">> \in HeldBy(j)}
CanAcquire(i, l, mode) ==
    IF mode = "w" THEN Holders(l) = {}
    ELSE /\ Writers(l) = {}
         /\ ~(Holders(l) # {} /\ \E j \in Callers \ {i} : Request(tasks[j]) = <<l, "w">>)

\* task i can run its next statement
Ready(i) ==
    /\ tasks[i] # NoCall
    /\ Request(tasks[i]) # <<>> => CanAcquire(i, Request(tasks[i])[1], Request(tasks[i])[2])

Acquire(t, l, mode) == [t EXCEPT !.held = @ \cup {<<l, mode>>}]
ReleaseAll(t) == [t EXCEPT !.held = {}]

LocksUnchanged ==
    UNCHANGED <<now, bundle_dest, called, granted, regranted,
                bpsecVars, claVars, framed, metrics, sdk, expiry, hist>>

\* task i returns result
LockReturn(i, result) ==
    /\ tasks' = [tasks EXCEPT ![i] = NoCall]
    /\ rret' = [op |-> tasks[i].op, via |-> tasks[i].via, result |-> result]

\* task i moves on to position pc with local value v
LockGoto(i, t, pc, v) ==
    /\ tasks' = [tasks EXCEPT ![i] = [t EXCEPT !.pc = pc, !.v = v]]
    /\ UNCHANGED rret

ProphetInstances == {p \in 1..Len(engine_objs) : engine_objs[p].kind = "prophet"}
EngineCalls == {"update_contact", "compute_routes", "should_forward"}
\* the destination of bundle 1 and one other neighbour
LockContacts == {Contact(e, 0, MaxTime) : e \in 1..2}
\* arguments, locals and results are records, named after what they hold
NoValue == [none |-> TRUE]
\* the arguments of the calls
CallArgs(op) ==
    CASE op = "register_engine" -> {[engine |-> e] : e \in EngineInputs}
      [] op = "set_active_engine" -> {[name |-> n] : n \in NameInputs}
      [] op \in {"should_forward", "compute_routes"} ->
             {[bundle |-> 1, contact |-> c] : c \in LockContacts}
      [] op = "update_contact" -> {[contact |-> c] : c \in LockContacts}
      [] OTHER -> {NoValue}

NewTask(op, via, pc, a, e) ==
    [op |-> op, via |-> via, pc |-> pc, a |-> a, e |-> e, v |-> NoValue, held |-> {}]

\* where the engine part of a call starts
EnginePc(op) ==
    CASE op = "update_contact" -> 10 [] op = "compute_routes" -> 20 [] op = "should_forward" -> 30

\* a call on the manager
ManagerLockCall(i) ==
    \E op \in {"register_engine", "set_active_engine", "get_active_engine", "list_engines"}
               \cup EngineCalls :
    \E a \in CallArgs(op) :
        /\ tasks[i] = NoCall
        /\ \A j \in 1..(i - 1) : tasks[j] # NoCall
        /\ rcalls < MaxLockCalls
        /\ op = "register_engine" =>
               Len(engine_objs) + Cardinality({j \in Callers : Request(tasks[j]) = <<EnginesLock, "w">>})
                   < MaxEngines
        /\ rcalls' = rcalls + 1
        /\ tasks' = [tasks EXCEPT ![i] = NewTask(op, "manager", 1, a, 0)]
        /\ UNCHANGED <<engine_objs, engines, active_engine, rret>>
        /\ LocksUnchanged

\* a call on a ProphetRouting instance itself
ProphetLockCall(i) ==
    \E op \in EngineCalls, p \in ProphetInstances : \E a \in CallArgs(op) :
        /\ tasks[i] = NoCall
        /\ \A j \in 1..(i - 1) : tasks[j] # NoCall
        /\ rcalls < MaxLockCalls
        /\ rcalls' = rcalls + 1
        /\ tasks' = [tasks EXCEPT ![i] = NewTask(op, "engine", EnginePc(op), a, p)]
        /\ UNCHANGED <<engine_objs, engines, active_engine, rret>>
        /\ LocksUnchanged

\* register_engine: engines.write(), kept to the end, and the insert
RegisterInsert(i) ==
    LET t == tasks[i]
    IN  /\ t # NoCall /\ t.op = "register_engine" /\ t.pc = 1
        /\ Ready(i)
        /\ engine_objs' = Append(engine_objs, t.a.engine)
        /\ engines' = Put(engines, t.a.engine.name, Len(engine_objs) + 1)
        /\ LockGoto(i, Acquire(t, EnginesLock, "w"), 2, NoValue)
        /\ UNCHANGED <<active_engine, rcalls>>
        /\ LocksUnchanged

\* a register_engine whose read guard on active_engine outlives the test
RegisterTestActiveKeepingGuard(i) ==
    LET t == tasks[i]
    IN  /\ t # NoCall /\ t.op = "register_engine" /\ t.pc = 2
        /\ Ready(i)
        /\ LockGoto(i, Acquire(t, ActiveLock, "r"), 3, [flag |-> TRUE])
        /\ UNCHANGED <<engine_objs, engines, active_engine, rcalls>>
        /\ LocksUnchanged

\* register_engine: self.active_engine.read().is_none(), the guard dropped
\* at the end of the condition
RegisterTestActive(i) ==
    LET t == tasks[i]
    IN  /\ t # NoCall /\ t.op = "register_engine" /\ t.pc = 2
        /\ Ready(i)
        /\ LockGoto(i, t, 3, [flag |-> active_engine = None])
        /\ UNCHANGED <<engine_objs, engines, active_engine, rcalls>>
        /\ LocksUnchanged

\* register_engine: *self.active_engine.write() = Some(name) if there was
\* none, then the end of the function
RegisterFinish(i) ==
    LET t == tasks[i]
    IN  /\ t # NoCall /\ t.op = "register_engine" /\ t.pc = 3
        /\ Ready(i)
        /\ active_engine' = IF t.v.flag THEN t.a.engine.name ELSE active_engine
        /\ LockReturn(i, NoValue)
        /\ UNCHANGED <<engine_objs, engines, rcalls>>
        /\ LocksUnchanged

\* a set_active_engine that stores the name without looking it up
SetActiveWithoutLookup(i) ==
    LET t == tasks[i]
    IN  /\ t # NoCall /\ t.op = "set_active_engine" /\ t.pc = 1
        /\ Ready(i)
        /\ LockGoto(i, Acquire(t, EnginesLock, "r"), 2, [flag |-> TRUE])
        /\ UNCHANGED <<engine_objs, engines, active_engine, rcalls>>
        /\ LocksUnchanged

\* set_active_engine: engines.read(), kept to the end, and contains_key
SetActiveLookup(i) ==
    LET t == tasks[i]
    IN  /\ t # NoCall /\ t.op = "set_active_engine" /\ t.pc = 1
        /\ Ready(i)
        /\ LockGoto(i, Acquire(t, EnginesLock, "r"), 2, [flag |-> t.a.name \in DOMAIN engines])
        /\ UNCHANGED <<engine_objs, engines, active_engine, rcalls>>
        /\ LocksUnchanged

\* set_active_engine: *self.active_engine.write() = Some(name), or NotFound
SetActiveFinish(i) ==
    LET t == tasks[i]
    IN  /\ t # NoCall /\ t.op = "set_active_engine" /\ t.pc = 2
        /\ Ready(i)
        /\ active_engine' = IF t.v.flag THEN t.a.name ELSE active_engine
        /\ LockReturn(i, [status |-> IF t.v.flag THEN "Ok" ELSE "NotFound"])
        /\ UNCHANGED <<engine_objs, engines, rcalls>>
        /\ LocksUnchanged

\* what a pass-through call answers when get_active_engine gives None
NoEngineResult(op) ==
    CASE op = "get_active_engine" -> [index |-> 0]
      [] op = "compute_routes" -> [routes |-> <<>>]
      [] op = "should_forward" -> [flag |-> TRUE]
      [] op = "update_contact" -> NoValue

\* get_active_engine: self.active_engine.read().as_ref().cloned()?
ActiveName(i) ==
    LET t == tasks[i]
    IN  /\ t # NoCall /\ t.via = "manager" /\ t.pc = 1
        /\ t.op \in {"get_active_engine"} \cup EngineCalls
        /\ Ready(i)
        /\ IF active_engine = None
           THEN LockReturn(i, NoEngineResult(t.op))
           ELSE LockGoto(i, t, 2, [name |-> active_engine])
        /\ UNCHANGED <<engine_objs, engines, active_engine, rcalls>>
        /\ LocksUnchanged

\* get_active_engine: self.engines.read().get(&active_name).cloned(), and
\* the caller's if let Some(engine)
ActiveLookup(i) ==
    LET t == tasks[i]
        p == IF t.v.name \in DOMAIN engines THEN engines[t.v.name] ELSE 0
    IN  /\ t # NoCall /\ t.via = "manager" /\ t.pc = 2
        /\ t.op \in {"get_active_engine"} \cup EngineCalls
        /\ Ready(i)
        /\ IF t.op = "get_active_engine" THEN LockReturn(i, [index |-> p])
           ELSE IF p = 0 THEN LockReturn(i, NoEngineResult(t.op))
           ELSE IF engine_objs[p].kind = "prophet"
                THEN LockGoto(i, [t EXCEPT !.e = p], EnginePc(t.op), NoValue)
                ELSE LockGoto(i, [t EXCEPT !.e = p], 40, NoValue)
        /\ UNCHANGED <<engine_objs, engines, active_engine, rcalls>>
        /\ LocksUnchanged

\* list_engines: self.engines.read().keys()
ListEngines(i) ==
    LET t == tasks[i]
    IN  /\ t # NoCall /\ t.op = "list_engines"
        /\ Ready(i)
        /\ LockReturn(i, [names |-> DOMAIN engines])
        /\ UNCHANGED <<engine_objs, engines, active_engine, rcalls>>
        /\ LocksUnchanged

\* the call on an active engine that is not ProphetRouting, as one step: it
\* runs with no lock of the manager held
OtherEngineCall(i) ==
    LET t == tasks[i]
        e == engine_objs[t.e]
        r == CASE t.op = "update_contact" ->
                      [eng |-> RoutingEngine_update_contact(e, t.a.contact), result |-> NoValue]
               [] t.op = "compute_routes" ->
                      LET c == RoutingEngine_compute_routes(e, bundle_dest[t.a.bundle],
                                                            <<t.a.contact>>)
                      IN  [eng |-> c.eng, result |-> [routes |-> c.result]]
               [] t.op = "should_forward" ->
                      LET f == RoutingEngine_should_forward(e, Bundle(t.a.bundle), t.a.contact)
                      IN  [eng |-> f.eng, result |-> [flag |-> f.result]]
    IN  /\ t # NoCall /\ t.pc = 40
        /\ engine_objs' = [engine_objs EXCEPT ![t.e] = r.eng]
        /\ LockReturn(i, r.result)
        /\ UNCHANGED <<engines, active_engine, rcalls>>
        /\ LocksUnchanged

\* ProphetRouting::should_forward: the direct-delivery return
ProphetDirectDelivery(i) ==
    LET t == tasks[i]
    IN  /\ t # NoCall /\ DirectDelivery(t)
        /\ LockReturn(i, [flag |-> TRUE])
        /\ UNCHANGED <<engine_objs, engines, active_engine, rcalls>>
        /\ LocksUnchanged

\* ProphetRouting::update_contact: contacts.write(), kept to the end, and
\* the replace-or-push
ProphetUpsertContact(i) ==
    LET t == tasks[i]
    IN  /\ t # NoCall /\ t.pc = 10
        /\ Ready(i)
        /\ engine_objs' = [engine_objs EXCEPT ![t.e].contacts = Contacts_upsert(@, t.a.contact)]
        /\ LockGoto(i, Acquire(t, ContactsLock(t.e), "w"), 11, NoValue)
        /\ UNCHANGED <<engines, active_engine, rcalls>>
        /\ LocksUnchanged

\* update_delivery_probability: delivery_probabilities.write() and the
\* insert of the new probability
ProphetInsertProbability(i) ==
    LET t == tasks[i]
        e == engine_objs[t.e]
    IN  /\ t # NoCall /\ t.pc = 11
        /\ Ready(i)
        /\ engine_objs' = [engine_objs EXCEPT ![t.e].delivery_probabilities =
               ProphetRouting_update_delivery_probability(e, t.a.contact.neighbor_eid)
                   .delivery_probabilities]
        /\ LockGoto(i, Acquire(t, ProbabilitiesLock(t.e), "w"), 12, NoValue)
        /\ UNCHANGED <<engines, active_engine, rcalls>>
        /\ LocksUnchanged

\* update_delivery_probability: last_encounter.write(), the insert of the
\* time, and the end of update_contact
ProphetInsertEncounter(i) ==
    LET t == tasks[i]
    IN  /\ t # NoCall /\ t.pc = 12
        /\ Ready(i)
        /\ engine_objs' = [engine_objs EXCEPT ![t.e].last_encounter =
               Put(@, t.a.contact.neighbor_eid, now)]
        /\ LockReturn(i, NoValue)
        /\ UNCHANGED <<engines, active_engine, rcalls>>
        /\ LocksUnchanged

\* age_probabilities: delivery_probabilities.write()
AgeLockProbabilities(i) ==
    LET t == tasks[i]
    IN  /\ t # NoCall /\ t.pc \in {20, 30, 33} /\ ~DirectDelivery(t)
        /\ Ready(i)
        /\ LockGoto(i, Acquire(t, ProbabilitiesLock(t.e), "w"), t.pc + 1, t.v)
        /\ UNCHANGED <<engine_objs, engines, active_engine, rcalls>>
        /\ LocksUnchanged

\* age_probabilities: last_encounter.read(), the decay of every entry, and
\* the end of the function, which drops both guards
AgeProbabilities(i) ==
    LET t == tasks[i]
    IN  /\ t # NoCall /\ t.pc \in {21, 31, 34}
        /\ Ready(i)
        /\ engine_objs' = [engine_objs EXCEPT
               ![t.e] = ProphetRouting_age_probabilities(engine_objs[t.e])]
        /\ LockGoto(i, ReleaseAll(t), t.pc + 1, t.v)
        /\ UNCHANGED <<engines, active_engine, rcalls>>
        /\ LocksUnchanged

\* get_delivery_probability: delivery_probabilities.read().get(..), and what
\* the caller does with the value
ReadProbability(i) ==
    LET t == tasks[i]
        e == engine_objs[t.e]
        eid == IF t.pc = 32 THEN bundle_dest[t.a.bundle] ELSE t.a.contact.neighbor_eid
        prob == IF eid \in DOMAIN e.delivery_probabilities
                THEN e.delivery_probabilities[eid] ELSE 0
        cost == IF prob > 0 THEN ProbScale \div prob ELSE 1000
    IN  /\ t # NoCall /\ t.pc \in {22, 32, 35}
        /\ Ready(i)
        /\ CASE t.pc = 22 ->
                    LockReturn(i, [routes |-> <<Route_with_validity(
                                      Route_with_confidence(
                                          Route_new(bundle_dest[t.a.bundle], eid, cost), prob),
                                      t.a.contact.end_time)>>])
             [] t.pc = 32 -> LockGoto(i, t, 33, [prob |-> prob])
             [] t.pc = 35 -> LockReturn(i, [flag |-> prob > t.v.prob + (ProphetBeta * ProbScale) \div 100])
        /\ UNCHANGED <<engine_objs, engines, active_engine, rcalls>>
        /\ LocksUnchanged

\* the statements of task i
TaskStep(i) ==
    \/ RegisterInsert(i) \/ RegisterTestActive(i) \/ RegisterFinish(i)
    \/ SetActiveLookup(i) \/ SetActiveFinish(i)
    \/ ActiveName(i) \/ ActiveLookup(i) \/ ListEngines(i)
    \/ OtherEngineCall(i) \/ ProphetDirectDelivery(i)
    \/ ProphetUpsertContact(i) \/ ProphetInsertProbability(i) \/ ProphetInsertEncounter(i)
    \/ AgeLockProbabilities(i) \/ AgeProbabilities(i) \/ ReadProbability(i)

InitRoutingLocks ==
    /\ RoutingInit(RoutingManager_new_objs, RoutingManager_new)
    /\ SecIdle /\ ClaIdle /\ FramedIdle /\ MetricsIdle /\ SdkIdle /\ ExpiryIdle
    /\ tasks = IdleTasks
    /\ hist = Unused

NextRoutingLocks ==
    \/ \E i \in Callers : ManagerLockCall(i)
    \/ \E i \in Callers : ProphetLockCall(i)
    \/ \E i \in Callers : RegisterInsert(i)
    \/ \E i \in Callers : RegisterTestActive(i)
    \/ \E i \in Callers : RegisterFinish(i)
    \/ \E i \in Callers : SetActiveLookup(i)
    \/ \E i \in Callers : SetActiveFinish(i)
    \/ \E i \in Callers : ActiveName(i)
    \/ \E i \in Callers : ActiveLookup(i)
    \/ \E i \in Callers : ListEngines(i)
    \/ \E i \in Callers : OtherEngineCall(i)
    \/ \E i \in Callers : ProphetDirectDelivery(i)
    \/ \E i \in Callers : ProphetUpsertContact(i)
    \/ \E i \in Callers : ProphetInsertProbability(i)
    \/ \E i \in Callers : ProphetInsertEncounter(i)
    \/ \E i \in Callers : AgeLockProbabilities(i)
    \/ \E i \in Callers : AgeProbabilities(i)
    \/ \E i \in Callers : ReadProbability(i)

SpecRoutingLocks == InitRoutingLocks /\ [][NextRoutingLocks]_vars

\* every thread that can run its next statement eventually runs it
SpecRoutingLocksFair ==
    SpecRoutingLocks /\ \A i \in Callers : WF_vars(TaskStep(i))

-----------------------------------------------------------------------------
(* BpSdk::init under concurrent callers                                    *)
(* init statement by statement: the swap of the flag, the call of          *)
(* bp_attach, and the return with the store that undoes the swap when the   *)
(* attach failed.  sdk is [s, attached, calls, returns, ret]: attached says *)
(* whether the native engine is attached to this process.                  *)

MaxInitCalls == 4

SdkCallers_new ==
    [s |-> BpSdk_new, attached |-> FALSE, calls |-> 0, returns |-> 0, ret |-> [op |-> "new"]]

InitUnchanged == UNCHANGED <<routingVars, bpsecVars, claVars, framed, metrics, expiry, hist>>

\* what a call hands back to caller i
SdkReturn(i, op, ret) ==
    [op |-> op, caller |-> i, n |-> sdk.returns + 1, ret |-> ret]

\* init: self.inner.initialized.swap(true), and the early return
InitSwap(i) ==
    /\ tasks[i] = NoCall
    /\ sdk.calls < MaxInitCalls
    /\ IF BpSdk_is_initialized(sdk.s)
       THEN /\ sdk' = [sdk EXCEPT !.calls = @ + 1, !.returns = @ + 1,
                                  !.ret = SdkReturn(i, "init", Ok("unit"))]
            /\ UNCHANGED tasks
       ELSE /\ sdk' = [sdk EXCEPT !.calls = @ + 1, !.s.initialized = TRUE]
            /\ tasks' = [tasks EXCEPT ![i] = [op |-> "init", pc |-> "bp_attach", result |-> 0]]
    /\ InitUnchanged

\* init: ffi::bp_attach() runs and gives its result
InitAttach(i) ==
    /\ tasks[i] # NoCall /\ tasks[i].pc = "bp_attach"
    /\ \E attach_result \in IonResults :
          /\ tasks' = [tasks EXCEPT ![i] = [@ EXCEPT !.pc = "result", !.result = attach_result]]
          /\ sdk' = [sdk EXCEPT !.attached = IF attach_result = 0 THEN TRUE ELSE @]
    /\ InitUnchanged

\* init: the test of the result, the store(false) and the return
InitFinish(i) ==
    /\ tasks[i] # NoCall /\ tasks[i].pc = "result"
    /\ sdk' = IF tasks[i].result # 0
              THEN [sdk EXCEPT !.s.initialized = FALSE, !.returns = @ + 1,
                               !.ret = SdkReturn(i, "init", Err(BpError_from(tasks[i].result)))]
              ELSE [sdk EXCEPT !.returns = @ + 1, !.ret = SdkReturn(i, "init", Ok("unit"))]
    /\ tasks' = [tasks EXCEPT ![i] = NoCall]
    /\ InitUnchanged

\* is_initialized() called by a thread that is not inside init
SdkIsInitialized(i) ==
    /\ tasks[i] = NoCall
    /\ sdk.calls < MaxInitCalls
    /\ sdk' = [sdk EXCEPT !.calls = @ + 1, !.returns = @ + 1,
                          !.ret = SdkReturn(i, "is_initialized",
                                            [value |-> BpSdk_is_initialized(sdk.s)])]
    /\ UNCHANGED tasks
    /\ InitUnchanged

InitSdkCallers ==
    /\ sdk = SdkCallers_new
    /\ tasks = IdleTasks
    /\ hist = Unused
    /\ FramedIdle /\ MetricsIdle /\ ExpiryIdle /\ RoutingIdle /\ SecIdle /\ ClaIdle

NextSdkCallers ==
    \/ \E i \in Callers : InitSwap(i)
    \/ \E i \in Callers : InitAttach(i)
    \/ \E i \in Callers : InitFinish(i)
    \/ \E i \in Callers : SdkIsInitialized(i)

SpecSdkCallers == InitSdkCallers /\ [][NextSdkCallers]_vars

----------------------------------------------------------------------------
(* Claims about the routing engines                                        *)

NonDest(t) == t[3] # bundle_dest[t[2]]

\* C1: over any series of should_forward calls on one EpidemicRouting, for a
\* pair (bundle, neighbour) whose neighbour is not the bundle's destination the
\* first call returns true and no later call does; a call whose neighbour is
\* the bundle's destination returns true whatever was recorded.
C1_EpidemicForwardsOnce ==
    /\ \A t \in called : NonDest(t) => t \in granted /\ t \notin regranted
    /\ rret.op = "should_forward" /\ rret.neighbor = bundle_dest[rret.bundle]
           => rret.result = TRUE

\* a pair that was granted before has just been offered again and refused
C1_Witness ==
    /\ rret.op = "should_forward"
    /\ rret.result = FALSE
    /\ <<1, rret.bundle, rret.neighbor>> \in granted
    /\ \E t \in granted : ~NonDest(t)

\* the context should_spray works on: the stored one, or a new one with the
\* engine's budget
SprayContext(e, id) ==
    IF id \in DOMAIN e.routing_history THEN e.routing_history[id]
    ELSE [encounters |-> {}, copies_left |-> e.initial_copies]

\* C2: with budget N >= 1, the distinct non-destination neighbours granted for
\* one bundle number at most N - 1; each such grant takes exactly one from the
\* bundle's remaining budget and records the neighbour; while the remaining
\* budget is 1 every call for a non-destination neighbour returns false.
C2_GrantsWithinBudget ==
    \A id \in BundleIds :
        engine_objs[1].initial_copies >= 1 =>
            Cardinality({t \in granted : t[2] = id /\ NonDest(t)})
                <= engine_objs[1].initial_copies - 1

C2_Step ==
    LET id == rret'.bundle
        n == rret'.neighbor
        before == SprayContext(engine_objs[1], id)
        after == engine_objs'[1].routing_history[id]
    IN  n # bundle_dest[id] =>
            /\ rret'.result = TRUE =>
                   /\ after.copies_left = before.copies_left - 1
                   /\ after.encounters = before.encounters \cup {n}
                   /\ n \notin before.encounters
            /\ before.copies_left = 1 /\ engine_objs[1].initial_copies >= 1
                   => rret'.result = FALSE

C2_SprayBudget == []C2_GrantsWithinBudget /\ [][C2_Step]_vars

\* the budget of a bundle is down to 1 after N - 1 grants and a neighbour that
\* was never encountered has just been refused
C2_Witness ==
    /\ rret.op = "should_forward"
    /\ rret.result = FALSE
    /\ rret.neighbor # bundle_dest[rret.bundle]
    /\ engine_objs[1].initial_copies >= 2
    /\ engine_objs[1].routing_history[rret.bundle].copies_left = 1
    /\ rret.neighbor \notin engine_objs[1].routing_history[rret.bundle].encounters

\* C3: SprayAndWaitRouting.should_forward returns true whenever the neighbour
\* is the bundle's destination, whatever budget is left.
C3_SprayDirectDelivery ==
    rret.op = "should_forward" /\ rret.neighbor = bundle_dest[rret.bundle]
        => rret.result = TRUE

\* direct delivery granted with the budget spent down to 1
C3_Witness ==
    /\ rret.op = "should_forward"
    /\ rret.neighbor = bundle_dest[rret.bundle]
    /\ rret.result = TRUE
    /\ engine_objs[1].initial_copies >= 2
    /\ engine_objs[1].routing_history[rret.bundle].copies_left = 1

----------------------------------------------------------------------------
(* Claims about the RoutingManager                                         *)

PassThrough == {"manager.should_forward", "manager.compute_routes", "manager.update_contact"}

\* The active name obeys the rule of register_engine and set_active_engine:
\* it starts as "epidemic", the first name registered, a registration leaves
\* it alone and only a successful set_active_engine changes it.
ActiveNameStep ==
    /\ rret'.op = "register_engine" => active_engine' = active_engine
    /\ active_engine' # active_engine
           => rret'.op = "set_active_engine" /\ rret'.result = "Ok"
    /\ rret'.op = "set_active_engine" =>
           IF rret'.name \in DOMAIN engines
           THEN rret'.result = "Ok" /\ active_engine' = rret'.name
           ELSE rret'.result = "NotFound" /\ active_engine' = active_engine
    /\ rret'.op \in PassThrough => rret'.engine = engines[active_engine]

ActiveNameStable ==
    /\ active_engine = RoutingManager_new_objs[1].name
    /\ active_engine = "epidemic"
    /\ [][ActiveNameStep]_vars

\* the engine that serves the manager's pass-through calls
ActiveEngine == engines[active_engine]

\* a contact whose window holds the clock
ActiveNow(contact) == contact.start_time <= now /\ now <= contact.end_time

\* a step that is a call of compute_routes: the clock moves between calls only
C29_Step ==
    rret'.op = "compute_routes" /\ now' = now
    /\ engine_objs[rret'.engine].kind = "epidemic" =>
        LET active == SelectSeq(rret'.contacts, ActiveNow)
            routes == rret'.result
        IN  /\ routes # <<>>
            /\ active # <<>> =>
                  /\ Len(routes) = Len(active)
                  /\ \A k \in 1..Len(active) :
                        /\ routes[k].next_hop = active[k].neighbor_eid
                        /\ routes[k].dest_eid = rret'.dest_eid
                        /\ routes[k].cost = 1
            /\ active = <<>> =>
                  /\ Len(routes) = 1
                  /\ routes[1].next_hop = rret'.dest_eid
                  /\ routes[1].dest_eid = rret'.dest_eid
                  /\ routes[1].cost = 100
            /\ engine_objs' = engine_objs

ContextBundles(i) == DOMAIN engine_objs[i].routing_history
DecidedBundles(i) == {t[2] : t \in {c \in called : c[1] = i}}

\* C30: an engine holds a context for a bundle exactly when should_forward has
\* been called on it for that bundle, and a context it holds stays.
C30_ContextIffForwardingDecision ==
    /\ [](\A i \in 1..Len(engine_objs) : ContextBundles(i) = DecidedBundles(i))
    /\ [][\A i \in 1..Len(engine_objs) :
             \A b \in ContextBundles(i) :
                 /\ b \in DOMAIN engine_objs'[i].routing_history
                 /\ engine_objs'[i].routing_history[b].bundle_id = b]_vars

\* C4: after RoutingManager::new the active engine is the first engine
\* registered, "epidemic"; registering further engines never changes which
\* engine is active, only a successful set_active_engine does.
C4_Step ==
    ActiveEngine' # ActiveEngine
        => rret'.op = "set_active_engine" /\ rret'.result = "Ok"

C4_FirstRegisteredStaysActive ==
    /\ active_engine = "epidemic"
    /\ ActiveEngine = 1
    /\ [][C4_Step]_vars

\* C5: set_active_engine(name) returns NotFound and leaves the active engine
\* alone when name is not registered; otherwise it returns Ok, the engine
\* registered under name is the active one, and every pass-through call is
\* delegated to that engine until the next successful set_active_engine.
C5_Step ==
    /\ rret'.op = "set_active_engine" =>
           IF rret'.name \in DOMAIN engines
           THEN rret'.result = "Ok" /\ ActiveEngine' = engines[rret'.name]
           ELSE rret'.result = "NotFound" /\ ActiveEngine' = ActiveEngine
    /\ rret'.op \in PassThrough => rret'.engine = ActiveEngine
    /\ rret'.op # "set_active_engine" => ActiveEngine' = ActiveEngine

C5_SetActiveEngine == [][C5_Step]_vars

\* C6: registering an engine whose name is already registered fails and leaves
\* the engine registered before under that name in the registry.
C6_Step ==
    rret'.op = "register_engine" /\ rret'.name \in DOMAIN engines =>
        /\ rret'.result = "Duplicate"
        /\ engines'[rret'.name] = engines[rret'.name]

C6_DuplicateEngineRejected == [][C6_Step]_vars

----------------------------------------------------------------------------
(* Claims about the BpsecManager                                           *)

\* what a map looks like after inserting exactly k |-> v, or deleting exactly k
InsertedExactly(before, after, k, v) ==
    /\ DOMAIN after = DOMAIN before \cup {k}
    /\ after[k] = v
    /\ \A x \in DOMAIN before : x # k => after[x] = before[x]

DeletedExactly(before, after, k) ==
    /\ DOMAIN after = DOMAIN before \ {k}
    /\ \A x \in DOMAIN after : after[x] = before[x]

\* C7: add_policy and add_key return Duplicate and leave the stored entry as it
\* was when the name or id is present, and insert exactly that entry otherwise;
\* remove_policy and remove_key return NotFound and leave the map as it was
\* when the name or id is absent, and delete exactly that entry otherwise.
C7_Step ==
    /\ sret'.op = "add_policy" =>
           /\ keys' = keys
           /\ IF sret'.policy.name \in DOMAIN policies
              THEN sret'.result = "Duplicate" /\ policies' = policies
              ELSE /\ sret'.result = "Ok"
                   /\ InsertedExactly(policies, policies', sret'.policy.name, sret'.policy)
    /\ sret'.op = "add_key" =>
           /\ policies' = policies
           /\ IF sret'.key_id \in DOMAIN keys
              THEN sret'.result = "Duplicate" /\ keys' = keys
              ELSE /\ sret'.result = "Ok"
                   /\ InsertedExactly(keys, keys', sret'.key_id, sret'.key)
    /\ sret'.op = "remove_policy" =>
           /\ keys' = keys
           /\ IF sret'.name \in DOMAIN policies
              THEN sret'.result = "Ok" /\ DeletedExactly(policies, policies', sret'.name)
              ELSE sret'.result = "NotFound" /\ policies' = policies
    /\ sret'.op = "remove_key" =>
           /\ policies' = policies
           /\ IF sret'.key_id \in DOMAIN keys
              THEN sret'.result = "Ok" /\ DeletedExactly(keys, keys', sret'.key_id)
              ELSE sret'.result = "NotFound" /\ keys' = keys

C7_RegistryContract == [][C7_Step]_vars

\* add_policy was refused for a policy that differs from the stored one of the
\* same name, and the stored one is still there
C7_Witness ==
    /\ sret.op = "add_policy"
    /\ sret.result = "Duplicate"
    /\ sret.policy.name \in DOMAIN policies
    /\ policies[sret.policy.name] # sret.policy

\* the rule of applicability, as the contract words it
C8_Applies(p, eid) ==
    /\ p.enabled = TRUE
    /\ \/ Len(p.target_eids) = 0
       \/ eid \in {p.target_eids[i] : i \in 1..Len(p.target_eids)}

\* C8: apply_security applies a stored policy iff the policy is enabled and its
\* target list is empty or contains the bundle's destination; when no policy
\* is applicable the call succeeds and returns the bundle as it was, so a
\* policy scoped to ipn:3.1 does not alter a bundle for ipn:2.1.
C8_Step ==
    sret'.op = "apply_security" =>
        LET A == {n \in DOMAIN policies : C8_Applies(policies[n], cur.dest_eid)}
        IN  /\ {sret'.order[i] : i \in 1..Len(sret'.order)} = A
            /\ Len(sret'.order) = Cardinality(A)
            /\ A = {} => sret'.result = "Ok" /\ cur' = cur
            /\ sret'.result = "Ok" =>
                   /\ Len(prov'.ops) = Cardinality(A)
                   /\ A # {} => "security_applied" \in DOMAIN cur'.metadata
            /\ sret'.result # "Ok" => cur' = cur

C8_PolicyApplicability == [][C8_Step]_vars

\* an enabled policy scoped to ipn:3.1 is stored and apply_security has just
\* returned a bundle for ipn:2.1 as it was
C8_Witness ==
    /\ sret.op = "apply_security"
    /\ sret.result = "Ok"
    /\ cur.dest_eid = "ipn:2.1"
    /\ cur = orig
    /\ \E n \in DOMAIN policies :
           policies[n].enabled /\ policies[n].target_eids = <<"ipn:3.1">>

\* the bundle is the output of apply_security under one Encrypt policy, not
\* changed since
SealedOnce ==
    /\ Len(prov.ops) = 1
    /\ prov.ops[1][1] = "Encrypt"
    /\ ~prov.touched
    /\ prov.opened = 0

\* C9: for every payload, the empty one included, and every 32-byte key, a
\* bundle encrypted by apply_security under one Encrypt policy and then given
\* to decrypt_bundle while the key is stored comes back with the original
\* payload and without the security_applied and encryption_algorithm markers.
C9_Step ==
    /\ sret'.op = "decrypt_bundle"
    /\ SealedOnce
    /\ \E id \in DOMAIN keys : keys[id] = prov.ops[1][2]
    => /\ Len(prov.ops[1][2]) = Aes256KeyLen
       /\ cur.payload # orig.payload
       /\ sret'.result = "Ok"
       /\ cur'.payload = orig.payload
       /\ "security_applied" \notin DOMAIN cur'.metadata
       /\ "encryption_algorithm" \notin DOMAIN cur'.metadata
       /\ cur'.dest_eid = orig.dest_eid

C9_EncryptDecryptRoundTrip == [][C9_Step]_vars

\* a sealed non-empty payload has just been opened with two keys in the keyring
C9_Witness ==
    /\ sret.op = "decrypt_bundle"
    /\ sret.result = "Ok"
    /\ Len(prov.ops) = 1
    /\ prov.ops[1][1] = "Encrypt"
    /\ ~prov.touched
    /\ prov.opened = 1
    /\ orig.payload # <<>>
    /\ cur.payload = orig.payload
    /\ Cardinality(DOMAIN keys) = 2

IsSigned(b) ==
    /\ "security_applied" \in DOMAIN b.metadata
    /\ b.metadata["security_applied"] = "signature"

\* C10: verify_bundle on a bundle marked as signed returns true iff some stored
\* key reproduces the recorded signature over the current payload: true for
\* the untouched output of a Sign policy while its key is stored, false once
\* the payload has changed or when no stored key has the signing key's bytes;
\* on a bundle not marked as signed it returns true; it changes neither the
\* bundle nor the policy and key maps.
C10_Step ==
    sret'.op = "verify_bundle" =>
        /\ cur' = cur /\ policies' = policies /\ keys' = keys
        /\ IF ~IsSigned(cur) THEN sret'.result = TRUE
           ELSE LET signing_key == prov.ops[Len(prov.ops)][2]
                    stored == \E id \in DOMAIN keys : keys[id] = signing_key
                IN  /\ sret'.result =
                           (\E id \in DOMAIN keys :
                                Hex_encode(Hmac_sign(keys[id], cur.payload))
                                    = cur.metadata["signature"])
                    /\ prov.ops[Len(prov.ops)][1] = "Sign"
                    /\ ~prov.touched /\ stored => sret'.result = TRUE
                    /\ prov.touched => sret'.result = FALSE
                    /\ ~stored => sret'.result = FALSE

C10_VerifyBundle == [][C10_Step]_vars

\* a signed bundle whose payload changed in transit has just been rejected
\* although the signing key is stored
C10_Witness ==
    /\ sret.op = "verify_bundle"
    /\ sret.result = FALSE
    /\ IsSigned(cur)
    /\ prov.touched
    /\ \E id \in DOMAIN keys : keys[id] = prov.ops[Len(prov.ops)][2]

\* the bundle is the output of apply_security under an Encrypt and a Sign
\* policy, in either order
Stacked ==
    /\ Len(prov.ops) = 2
    /\ {prov.ops[1][1], prov.ops[2][1]} = {"Encrypt", "Sign"}

StackedKeysStored ==
    \A i \in 1..Len(prov.ops) : \E id \in DOMAIN keys : keys[id] = prov.ops[i][2]

\* C11: when an Encrypt and a Sign policy both match, apply_security applies
\* both, and in whichever order they were applied the result can be reversed
\* while the keys are stored: verify_bundle checks the recorded signature (so
\* it accepts the untouched bundle and rejects one whose payload changed) and
\* decrypt_bundle returns the original payload.
C11_Step ==
    Stacked /\ StackedKeysStored /\ prov.opened = 0 =>
        /\ sret'.op = "decrypt_bundle" /\ ~prov.touched =>
               sret'.result = "Ok" /\ cur'.payload = orig.payload
        /\ sret'.op = "verify_bundle" => sret'.result = ~prov.touched

C11_StackedSecurityReversible == [][C11_Step]_vars

IsEncrypted(b) ==
    /\ "security_applied" \in DOMAIN b.metadata
    /\ b.metadata["security_applied"] = "encryption"

\* key opens the sealed payload data: a 32-byte key under which the tag after
\* the 12-byte nonce authenticates
Opens(key, data) ==
    /\ Len(key) = Aes256KeyLen
    /\ Len(data) >= NonceLen
    /\ Aead_open_in_place(key, SubSeq(data, 1, NonceLen),
                          SubSeq(data, NonceLen + 1, Len(data))).ok

\* C12: decrypt_bundle returns a bundle without security_applied marker as it
\* is; for a bundle marked as encrypted it fails with Security iff no stored
\* key opens the payload (an empty keyring included) and succeeds otherwise;
\* a failing call leaves the bundle as it was and no call changes the key map.
C12_Step ==
    sret'.op = "decrypt_bundle" =>
        /\ keys' = keys /\ policies' = policies
        /\ "security_applied" \notin DOMAIN cur.metadata =>
               sret'.result = "Ok" /\ cur' = cur
        /\ sret'.result # "Ok" => cur' = cur
        /\ IsEncrypted(cur) =>
               /\ sret'.result \in {"Ok", "Security"}
               /\ sret'.result = "Security"
                      <=> ~\E id \in DOMAIN keys : Opens(keys[id], cur.payload)
               /\ keys = EmptyMap => sret'.result = "Security"
               /\ LET sealing_key == prov.ops[Len(prov.ops)][2]
                      stored == \E id \in DOMAIN keys : keys[id] = sealing_key
                  IN  /\ stored /\ ~prov.touched => sret'.result = "Ok"
                      /\ ~stored => sret'.result = "Security"
                      /\ prov.touched => sret'.result = "Security"

C12_DecryptBundleErrors == [][C12_Step]_vars

\* an untouched encrypted bundle was refused although the keyring holds a
\* 32-byte key, because no stored key is the sealing key
C12_Witness ==
    /\ sret.op = "decrypt_bundle"
    /\ sret.result = "Security"
    /\ IsEncrypted(cur)
    /\ ~prov.touched
    /\ \E id \in DOMAIN keys : Len(keys[id]) = Aes256KeyLen

\* what a policy runs into when apply_security reaches it, as the contract
\* words it
PolicyOutcome(p) ==
    IF p.key_id \notin DOMAIN keys THEN "NotFound"
    ELSE IF p.operation = "Encrypt"
         THEN IF p.algorithm # "AES-256-GCM" THEN "Protocol"
              ELSE IF Len(keys[p.key_id]) # 32 THEN "Security"
              ELSE "Ok"
    ELSE IF p.operation = "Sign"
         THEN IF p.algorithm # "HMAC-SHA256" THEN "Protocol" ELSE "Ok"
    ELSE "Protocol"

\* the policies of order that come before the first one that fails
Reached(order) ==
    {i \in 1..Len(order) :
        \A j \in 1..(i - 1) : PolicyOutcome(policies[order[j]]) = "Ok"}

\* C13: an Encrypt policy whose key is not exactly 32 bytes long fails with
\* Security, an unrecognised algorithm name fails with Protocol on the encrypt
\* and on the sign path; when a matching policy hits such a failure
\* apply_security returns that error and no sealed bundle.
C13_Step ==
    sret'.op = "apply_security" =>
        LET order == sret'.order
            failing == {i \in Reached(order) : PolicyOutcome(policies[order[i]]) # "Ok"}
        IN  /\ \A i \in failing : sret'.result = PolicyOutcome(policies[order[i]])
            /\ failing = {} => sret'.result = "Ok"
            /\ sret'.result # "Ok" => cur' = cur /\ prov' = prov
            /\ sret'.result = "Ok" =>
                   \A i \in 1..Len(order) :
                       policies[order[i]].operation = "Encrypt"
                           => Len(keys[policies[order[i]].key_id]) = 32

C13_KeyLengthAndAlgorithmErrors == [][C13_Step]_vars

\* a Sign policy succeeded first, then the Encrypt policy met a 16-byte key:
\* Security, and the bundle in hand is still the unsealed one
C13_Witness ==
    /\ sret.op = "apply_security"
    /\ sret.result = "Security"
    /\ Len(sret.order) = 2
    /\ policies[sret.order[1]].operation = "Sign"
    /\ policies[sret.order[2]].operation = "Encrypt"
    /\ Len(keys[policies[sret.order[2]].key_id]) = ShortKeyLen
    /\ cur = orig

----------------------------------------------------------------------------
(* The ClaManager of cla.rs                                                *)

C14_Step ==
    /\ cret'.op = "register" =>
          LET protocol == Cla_protocol(cla_objs[cret'.adapter])
          IN  IF protocol \in DOMAIN clas
              THEN cret'.result = "Duplicate" /\ clas' = clas
              ELSE cret'.result = "Ok" /\ clas' = Put(clas, protocol, cret'.adapter)
    /\ (cret'.op = "unregister" /\ cret'.protocol \notin DOMAIN clas) =>
          cret'.result = "NotFound" /\ clas' = clas
    /\ (cret'.op = "unregister" /\ cret'.protocol \in DOMAIN clas) =>
          cret'.result = "Ok" /\ DOMAIN clas' = DOMAIN clas \ {cret'.protocol}
    /\ (cret'.op = "manager.send" /\ cret'.protocol \notin DOMAIN clas) =>
          /\ cret'.result = "NotFound"
          /\ cret'.contacted = {}
          /\ ~cret'.transmitted
          /\ cla_objs' = cla_objs
    /\ ClaManager_list_protocols(clas') = cla_names'

\* C14: the ClaManager rejects a register under an already registered protocol
\* with Duplicate and keeps the existing adapter, answers NotFound to an
\* unregister of or a send for an unregistered protocol without contacting any
\* adapter, and lists exactly the protocols registered and not since
\* unregistered.
C14_ClaManagerRegistry == [][C14_Step]_vars

C14_Witness ==
    /\ cret.op = "register"
    /\ cret.result = "Duplicate"
    /\ cret.adapter = 3
    /\ "tcp" \in DOMAIN clas
    /\ clas["tcp"] = 1
    /\ cla_names = {"tcp", "udp"}

Registered == {clas[p] : p \in DOMAIN clas}

C15_Step ==
    cret'.op \in {"start_all", "stop_all"} =>
        /\ cret'.attempted = Registered
        /\ cret'.result = "Ok" <=>
              \A i \in Registered :
                  (IF cret'.op = "start_all" THEN Cla_start(World, i) ELSE Cla_stop(World, i)).result = "Ok"

\* C15: start_all and stop_all attempt the operation on every registered
\* adapter even when one of them fails, and report a failure exactly when some
\* adapter failed.
C15_StartAllStopAllAttemptEveryAdapter == [][C15_Step]_vars

----------------------------------------------------------------------------
(* The transport adapters of cla.rs and transport/mod.rs                    *)

\* the running loops spawned for adapter i
RunningLoops(ls, i) == {l \in 1..Len(ls) : ls[l].adapter = i /\ ls[l].state = "running"}

FreeAddress(i) ==
    /\ Addr_parse(cla_objs[i].local_address).ok
    /\ cla_objs[i].local_address \notin BoundPorts(World, Transport(cla_objs[i].kind))

C16_Step ==
    LET i == cret'.adapter
    IN  (/\ cret'.op = "start"
         /\ cla_objs[i].kind = "TcpCla"
         /\ cla_objs[i].receive_callback # None
         /\ FreeAddress(i)) =>
            /\ cret'.result = "Ok"
            /\ cla_objs'[i].listener # None
            /\ \E l \in RunningLoops(loops', i) :
                  /\ RunningLoops(loops', i) = {l}
                  /\ loops'[l].port = cla_objs'[i].listener
                  /\ loops'[l].callback = cla_objs[i].receive_callback

\* C16: start() of a stream adapter that has a receive callback and a free
\* local address returns Ok, binds the address and leaves exactly one running
\* accept loop, listening on the bound address and delivering to the callback.
C16_TcpStartWithCallback == [][C16_Step]_vars

WorldAfter == [objs |-> cla_objs', loops |-> loops']

C17_Step ==
    cret'.op = "stop" =>
        /\ cret'.result = "Ok"
        /\ Stopped(cla_objs'[cret'.adapter])
        /\ Cla_stop(WorldAfter, cret'.adapter) = [w |-> WorldAfter, result |-> "Ok"]
        /\ cret'.was_stopped => cla_objs' = cla_objs

\* C17: stop() returns Ok in every state of the adapter and leaves it without
\* a bound resource and without a shutdown sender; on an adapter that was
\* never started or is already stopped it changes nothing, so that a further
\* stop() has no further effect.
C17_StopSafeInEveryState == [][C17_Step]_vars

C17_Witness ==
    /\ cret.op = "stop"
    /\ cret.was_stopped
    /\ \E l \in 1..Len(loops) : loops[l].adapter = cret.adapter /\ loops[l].stop_requested

C18_Step ==
    (cret'.op = "send" /\ Stopped(cla_objs[cret'.adapter])) =>
        /\ cret'.result = "NotInitialized"
        /\ ~cret'.transmitted

\* C18: send on an adapter that was not started, or was stopped since its last
\* start, fails with NotInitialized and transmits nothing, for the stream and
\* the datagram adapters alike.
C18_SendBeforeStartNotInitialized == [][C18_Step]_vars

StopRequested(l) == l <= Len(loops) /\ loops[l].stop_requested
LoopDone(l) == l <= Len(loops) /\ loops[l].state = "done"

C19_ErrorStep ==
    cret'.op = "loop_error" => loops'[cret'.loop].state = "done"

\* C19: once stop() was called on an adapter whose background loop is running,
\* that loop eventually terminates, whatever units keep arriving, provided a
\* ready shutdown branch is eventually taken; and a loop terminates at its
\* first transport error.
C19_CooperativeShutdown ==
    /\ \A l \in 1..MaxLoops : StopRequested(l) ~> LoopDone(l)
    /\ [][C19_ErrorStep]_vars

C19_Witness ==
    /\ cret.op = "loop_shutdown"
    /\ loops[cret.loop].stop_requested
    /\ loops[cret.loop].state = "done"
    /\ conns # {}

C20_Step ==
    cret'.op = "deliver" =>
        cret'.callback = cla_objs[cret'.adapter].receive_callback

\* C20: every unit an adapter receives is delivered to the callback registered
\* last, and to no callback registered before it, also when the callback was
\* replaced after the adapter was started.
C20_CallbackReplaced == [][C20_Step]_vars

----------------------------------------------------------------------------
(* The framed stream adapter of transport/mod.rs                            *)

DeclaredLen == U32_from_be_bytes(framed'.ret.len_buf)

C21_Step ==
    /\ (framed'.ret.op = "receive.header" /\ framed'.ret.len_buf # Eof) =>
          IF DeclaredLen > 10000000
          THEN /\ framed'.ret.result = "Protocol"
               /\ framed'.ret.allocated = 0
               /\ framed'.rx[framed'.ret.r].pc = "idle"
          ELSE /\ framed'.ret.result = "Pending"
               /\ framed'.ret.allocated = DeclaredLen
               /\ framed'.rx[framed'.ret.r].pc = "read_body"
    /\ framed'.ret.op = "receive.body" =>
          /\ DeclaredLen <= 10000000
          /\ framed'.ret.reason # "Bundle too large"

\* C21: receive() rejects a frame whose declared length exceeds 10,000,000
\* with a Protocol error, having allocated no body buffer and read no body
\* byte; a frame declaring 10,000,000 or less gets its buffer and goes on to
\* the body, and is never rejected for its size.
C21_FrameLengthCeiling == [][C21_Step]_vars

C21_Witness ==
    /\ framed.ret.op = "receive.header"
    /\ framed.ret.len_buf = <<0, 152, 150, 129>>
    /\ framed.ret.result = "Protocol"
    /\ \E r \in 1..NumReceivers :
          framed.rx[r].pc = "read_body" /\ framed.rx[r].allocated = 10000000

\* a receive() call that waits for its peer (a connection, the length bytes
\* or the body bytes)
Suspended(r) == framed.rx[r].pc \in {"accept", "read_len", "read_body"}

\* C28: no call waits for its peer while it holds a lock: a stop() that has
\* been issued is never kept waiting for the listener lock by a receive() that
\* waits for a connection or for frame bytes.
C28_StopNotBlockedByReceive ==
    ~(/\ framed.stop_pc = "wait_listener"
      /\ \E r \in Readers(framed) : Suspended(r))

----------------------------------------------------------------------------
(* The MetricsCollector of metrics.rs                                       *)

Quiescent == \A i \in 1..NumCallers : metrics.callers[i] = NoCall

\* C22: when every call has returned and no bundle was recorded as forwarded,
\* the counters equal the number of record_bundle_sent / record_bundle_received
\* calls and the sums of their byte arguments, in the arithmetic of the
\* counters, whatever the interleaving of the calls was; and a get_metrics
\* that ran while nothing else did returned exactly these counters.
C22_CountersLoseNoUpdate ==
    (Quiescent /\ metrics.hist.forwarded_calls = 0) =>
        /\ metrics.c.bundles_sent = metrics.hist.sent_calls % WordModulus
        /\ metrics.c.bytes_sent = metrics.hist.sent_bytes
        /\ metrics.c.bundles_received = metrics.hist.received_calls % WordModulus
        /\ metrics.c.bytes_received = metrics.hist.received_bytes
        /\ (metrics.ret.op = "get_metrics" /\ Cardinality(metrics.ret.seen) = 1) =>
              metrics.ret.view = Counters(metrics.c)

C22_Witness ==
    /\ Quiescent
    /\ metrics.hist.forwarded_calls = 0
    /\ metrics.hist.sent_calls = 2
    /\ metrics.hist.received_calls = 1
    /\ metrics.c.bytes_sent = (2 * (WordModulus - 1)) % WordModulus
    /\ metrics.c.bytes_received = 1

\* the last n entries of a log, in the order they were appended
MostRecent(log, n) == SubSeq(log, Len(log) - n + 1, Len(log))
Least(a, b) == IF a < b THEN a ELSE b

\* C23: the latency queue never holds more than max_latency_samples entries and
\* the snapshot history never more than max_history_size; each holds exactly
\* the most recent entries pushed, in the order they were pushed, for every
\* capacity from 0 up and every interleaving of the callers.
C23_BoundedHistories ==
    /\ Len(metrics.c.latency_measurements) <= metrics.c.max_latency_samples
    /\ metrics.c.latency_measurements =
          MostRecent(metrics.hist.latency_log,
                     Least(Len(metrics.hist.latency_log), metrics.c.max_latency_samples))
    /\ Len(metrics.c.historical_metrics) <= metrics.c.max_history_size
    /\ metrics.c.historical_metrics =
          MostRecent(metrics.hist.history_log,
                     Least(Len(metrics.hist.history_log), metrics.c.max_history_size))

C23_Witness ==
    /\ metrics.c.max_latency_samples = 1
    /\ metrics.c.max_history_size = 0
    /\ Len(metrics.hist.latency_log) = 2
    /\ Len(metrics.hist.history_log) = 1
    /\ metrics.c.latency_measurements = <<metrics.hist.latency_log[2]>>
    /\ metrics.c.historical_metrics = <<>>

\* C24: the counters a get_metrics call returns are the collector's counters
\* at one instant between the call and its return, whatever record_* calls of
\* other callers ran meanwhile.
C24_GetMetricsPointInTime ==
    metrics.ret.op = "get_metrics" => metrics.ret.view \in metrics.ret.seen

-----------------------------------------------------------------------------
(* The BpSdk of core.rs                                                    *)

C25_Step ==
    /\ sdk'.ret.op = "init" =>
          /\ sdk'.ret.ret.ok => BpSdk_is_initialized(sdk'.s)
          /\ ~sdk'.ret.ret.ok => /\ ~BpSdk_is_initialized(sdk'.s)
                                 /\ sdk'.ret.attached
          /\ BpSdk_is_initialized(sdk.s) => /\ sdk'.ret.ret.ok
                                            /\ ~sdk'.ret.attached
                                            /\ sdk'.attaches = sdk.attaches
                                            /\ sdk'.s = sdk.s
    /\ sdk'.ret.op = "shutdown" =>
          /\ ~BpSdk_is_initialized(sdk'.s)
          /\ ~BpSdk_is_initialized(sdk.s) => /\ sdk'.ret.ret = Err("NotInitialized")
                                             /\ sdk'.s = sdk.s
          /\ sdk'.ret.ret.ok => DOMAIN sdk'.s.endpoints = {}

\* C25: a new BpSdk is not initialized; init() that returns Ok leaves it
\* initialized and init() that returns an error (its attach failed) leaves it
\* not initialized; init() on an initialized SDK returns Ok without calling
\* bp_attach; after any shutdown() the SDK is not initialized; shutdown() on a
\* non-initialized SDK returns NotInitialized and changes nothing; a shutdown()
\* that returns Ok leaves no endpoint registered.
C25_SdkLifecycle ==
    /\ ~BpSdk_is_initialized(sdk.s) /\ DOMAIN sdk.s.endpoints = {}
    /\ [][C25_Step]_vars

\* a shutdown that succeeded on an SDK with every EID registered, after more
\* than one call of bp_attach
C25_Witness ==
    /\ sdk.ret.op = "shutdown"
    /\ sdk.ret.ret.ok
    /\ sdk.ret.registered = NumSdkEids
    /\ sdk.attaches > 1

\* the Endpoint objects get_endpoint returns for eid, by identity
RegisteredIds(s, eid) == {e.id : e \in BpSdk_get_endpoint(s, eid)}

C26_CreateAndRemove ==
    /\ sdk'.ret.op = "create_endpoint" =>
          LET eid == sdk'.ret.eid
          IN  /\ ~BpSdk_is_initialized(sdk.s) =>
                    sdk'.ret.ret = Err("NotInitialized") /\ sdk'.s = sdk.s
              /\ BpSdk_is_initialized(sdk.s) /\ RegisteredIds(sdk.s, eid) # {} =>
                    sdk'.ret.ret = Err("Duplicate") /\ sdk'.s = sdk.s
              /\ BpSdk_is_initialized(sdk.s) /\ RegisteredIds(sdk.s, eid) = {} =>
                    /\ sdk'.ret.ret.ok
                    /\ BpSdk_get_endpoint(sdk'.s, eid) = {sdk'.ret.ret.val}
                    /\ sdk'.ret.ret.val.eid = eid
    /\ sdk'.ret.op = "remove_endpoint" => RegisteredIds(sdk'.s, sdk'.ret.eid) = {}

\* the endpoint registered for eid is still the one get_endpoint returns
KeptBy(eid) == RegisteredIds(sdk'.s, eid) = RegisteredIds(sdk.s, eid)

C26_OriginalStep ==
    /\ C26_CreateAndRemove
    /\ \A eid \in SdkEids :
          RegisteredIds(sdk.s, eid) # {}
          /\ ~(sdk'.ret.op = "remove_endpoint" /\ sdk'.ret.eid = eid)
          => KeptBy(eid)

\* C26 as stated: create_endpoint returns NotInitialized on an SDK that is
\* not initialized, Duplicate for an EID that has an endpoint (which stays),
\* and otherwise registers the endpoint; get_endpoint returns a registered
\* endpoint until remove_endpoint is called for its EID, and none after that.
C26_RegisteredUntilRemoved == [][C26_OriginalStep]_vars

C26_AmendedStep ==
    /\ C26_CreateAndRemove
    /\ \A eid \in SdkEids :
          RegisteredIds(sdk.s, eid) # {}
          /\ ~(sdk'.ret.op = "remove_endpoint" /\ sdk'.ret.eid = eid)
          /\ ~(sdk'.ret.op = "shutdown" /\ BpSdk_is_initialized(sdk.s))
          => KeptBy(eid)
    /\ sdk'.ret.op = "shutdown" =>
          \/ DOMAIN sdk'.s.endpoints = {}
          \/ ~sdk'.ret.ret.ok /\ \A eid \in SdkEids : KeptBy(eid)

\* C26, amended: as stated, except that a registered endpoint is returned by
\* get_endpoint until remove_endpoint is called for its EID or shutdown() is
\* called on the initialized SDK; that shutdown unregisters every endpoint, or
\* fails and unregisters none.
C26_RegisteredUntilRemovedOrShutdown == [][C26_AmendedStep]_vars

\* create_endpoint for a registered EID was refused as Duplicate, the
\* registered endpoint not being the first the SDK created
C26_Witness ==
    /\ sdk.ret.op = "create_endpoint"
    /\ ~sdk.ret.ret.ok
    /\ sdk.ret.ret.err = "Duplicate"
    /\ RegisteredIds(sdk.s, sdk.ret.eid) \cap (2..MaxEndpoints) # {}

-----------------------------------------------------------------------------
(* Bundle::is_expired of types.rs                                          *)

C27_Step ==
    expiry'.ret.op = "is_expired" =>
        /\ expiry'.ret.value <=>
              (expiry.now - expiry.bundle.creation_time) * TicksPerMsec > expiry.bundle.ttl
        /\ expiry.expired_since => expiry'.ret.value
        /\ expiry'.bundle = expiry.bundle
        /\ expiry'.now = expiry.now

\* C27: is_expired() is true exactly when the clock reads more than the TTL
\* past the creation time (false at exactly the TTL and when the clock reads
\* earlier than the creation time); once it has returned true it returns true
\* as long as the clock is not set back; the call changes nothing.
C27_IsExpiredPure == [][C27_Step]_vars

-----------------------------------------------------------------------------
(* ProphetRouting                                                          *)

\* the probability of neighbour n as its last encounter left it, decayed once
\* by gamma to the power of the hours elapsed since that encounter
DecayedOnce(n) ==
    IF n \in DOMAIN hist.fresh
    THEN LET hours == now - engine_objs[1].last_encounter[n]
         IN  (hist.fresh[n] * Pow(ProphetGamma, hours)) \div Pow(100, hours)
    ELSE 0

C31_Step ==
    hist'.calls = hist.calls + 1 =>
        /\ rret'.op = "compute_routes" =>
              rret'.result[1].confidence = DecayedOnce(rret'.contacts[1].neighbor_eid)
        /\ rret'.op = "should_forward" /\ bundle_dest[rret'.bundle] # rret'.neighbor =>
              rret'.result = (DecayedOnce(rret'.neighbor) >
                                  DecayedOnce(bundle_dest[rret'.bundle])
                                      + (ProphetBeta * ProbScale) \div 100)

\* C31: the delivery probability a call of compute_routes or should_forward
\* reads for a neighbour is the value its last encounter left, decayed once
\* for the time elapsed since that encounter, however often it was read before.
C31_AgeingDependsOnElapsedTimeOnly == [][C31_Step]_vars

\* C32: whatever the interleaving of the should_forward calls on one flooding
\* engine, no bundle is granted to the same non-destination neighbour twice.
C32_AtMostOneGrantUnderConcurrency ==
    \A t \in regranted : bundle_dest[t[2]] = t[3]

-----------------------------------------------------------------------------
(* SprayAndWaitRouting: the state of its contexts                          *)

\* the budget and the encountered set a bounded-replication engine holds for a
\* bundle, a bundle without a context counting as one with the whole budget
SprayState(e, b) ==
    IF b \in DOMAIN e.routing_history
    THEN [copies_left |-> e.routing_history[b].copies_left,
          encounters |-> e.routing_history[b].encounters]
    ELSE [copies_left |-> e.initial_copies, encounters |-> {}]

C33_ContextInvariant ==
    \A b \in DOMAIN engine_objs[1].routing_history :
        LET context == engine_objs[1].routing_history[b]
            N == engine_objs[1].initial_copies
        IN  /\ context.copies_left + Cardinality(context.encounters) = N
            /\ bundle_dest[b] \notin context.encounters
            /\ N >= 1 => context.copies_left >= 1

C33_Step ==
    rret'.op = "should_forward"
    /\ (~rret'.result \/ bundle_dest[rret'.bundle] = rret'.neighbor)
    => \A b \in BundleIds : SprayState(engine_objs'[1], b) = SprayState(engine_objs[1], b)

\* C33: every context of a bounded-replication engine of budget N has
\* copies_left + |encounters| = N, never lists the bundle's destination as
\* encountered and, for N >= 1, keeps copies_left >= 1; a should_forward call
\* that returns false or grants direct delivery leaves budget and encountered
\* set as they were.
C33_SprayContexts == []C33_ContextInvariant /\ [][C33_Step]_vars

\* the budget of a bundle is down to its last copy and a further neighbour has
\* just been refused
C33_Witness ==
    /\ rret.op = "should_forward"
    /\ ~rret.result
    /\ engine_objs[1].initial_copies > 1
    /\ engine_objs[1].routing_history[rret.bundle].copies_left = 1
    /\ rret.neighbor \notin engine_objs[1].routing_history[rret.bundle].encounters
    /\ rret.neighbor # bundle_dest[rret.bundle]

----------------------------------------------------------------------------
(* RoutingManager and ProphetRouting under concurrent callers              *)

\* C34: a manager made by RoutingManager::new() always has an active engine
\* designated and the designated name is a key of the registry, whatever the
\* interleaving of register_engine and set_active_engine, so that
\* get_active_engine never returns none.
C34_ActiveEngineRegistered ==
    /\ active_engine # None
    /\ active_engine \in DOMAIN engines
    /\ RoutingManager_get_active_engine(Manager) # 0
    /\ rret.op = "get_active_engine" => rret.result.index # 0

\* get_active_engine returned an engine registered after construction
C34_Witness ==
    /\ rret.op = "get_active_engine"
    /\ rret.result.index > Len(RoutingManager_new_objs)

LockRank(l) ==
    CASE l[2] = "engines" -> 1
      [] l[2] = "active_engine" -> 2
      [] l[2] = "contacts" -> 3
      [] l[2] = "delivery_probabilities" -> 4
      [] l[2] = "last_encounter" -> 5

\* every lock a call asks for comes after all the locks it holds
LockOrder ==
    \A i \in Callers :
        Request(tasks[i]) # <<>> =>
            \A h \in HeldBy(i) : LockRank(h[1]) < LockRank(Request(tasks[i])[1])

\* C36: under any interleaving of concurrent calls on the RoutingManager and
\* on ProphetRouting every call eventually returns, and no call asks for a
\* lock of engines/active_engine or of contacts/delivery_probabilities/
\* last_encounter out of the one order all calls follow.
C36_EveryCallReturns ==
    /\ []LockOrder
    /\ \A i \in Callers : (tasks[i] # NoCall) ~> (tasks[i] = NoCall)

\* a call holds a lock while another call waits for it
C36_Witness ==
    \E i, j \in Callers :
        /\ tasks[i] # NoCall /\ ~Ready(i)
        /\ Request(tasks[i])[1] \in {h[1] : h \in HeldBy(j)}
        /\ HeldBy(i) # {}

\* C35: update_contact and should_forward on the manager change the contact
\* list, encountered sets, budgets and probabilities of the currently active
\* engine only and leave every other registered engine as it was; the
\* decision is the one the active engine takes from its own state, also after
\* set_active_engine has switched engines.
C35_Step ==
    rcalls' = rcalls + 1 /\ rret'.op \in {"manager.should_forward", "manager.update_contact"} =>
        /\ rret'.engine = ActiveEngine
        /\ Len(engine_objs') = Len(engine_objs)
        /\ \A j \in 1..Len(engine_objs) : j # ActiveEngine => engine_objs'[j] = engine_objs[j]
        /\ engines' = engines /\ active_engine' = active_engine
        /\ rret'.op = "manager.should_forward" =>
               rret'.result = RoutingEngine_should_forward(
                                  engine_objs[ActiveEngine], Bundle(rret'.bundle),
                                  Contact(rret'.neighbor, 0, MaxTime)).result

C35_PassThroughTouchesActiveOnly == [][C35_Step]_vars

\* after a switch of engines a pass-through call has changed the newly active
\* engine, and the engine active before is as new
C35_Witness ==
    /\ rret.op \in {"manager.should_forward", "manager.update_contact"}
    /\ active_engine # "epidemic"
    /\ engine_objs[ActiveEngine] # RoutingManager_new_objs[ActiveEngine]
    /\ engine_objs[1] = EpidemicRouting_new
    /\ ActiveEngine <= Len(RoutingManager_new_objs)

----------------------------------------------------------------------------
(* Adapters: failure of start, and what still runs after stop               *)

C37_Step ==
    LET i == cret'.adapter
    IN  (/\ cret'.op = "start"
         /\ cla_objs[i].kind = "TcpCla"
         /\ cret'.result # "Ok") =>
            /\ cla_objs'[i] = cla_objs[i]
            /\ loops' = loops

\* C37: a start() of the stream adapter of cla.rs that returns an error
\* (unparsable address, or a bind that fails) leaves the adapter as it was
\* before the call: no listener stored, no shutdown sender stored, no accept
\* loop spawned.
C37_TcpStartAtomicOnFailure == [][C37_Step]_vars

C38_Step ==
    LET i == cret'.adapter
    IN  /\ cret'.op = "deliver" => ~Stopped(cla_objs[i])
        /\ cret'.op = "stop" =>
               /\ RunningLoops(loops', i) = {}
               /\ {h \in conns' : h.adapter = i} = {}

\* C38: once stop() has returned on a started adapter its receive callback is
\* never invoked again, neither for a datagram nor for data read on a
\* connection accepted before the stop, and no task the adapter spawned is
\* still running.
C38_NoCallbackAfterStop == [][C38_Step]_vars

----------------------------------------------------------------------------
(* BpSdk: shutdown that fails, and init under concurrent callers           *)

\* a shutdown step that returned the error of an endpoint's close: the SDK
\* was initialized and the registry was not cleared
C40_CloseFailed ==
    /\ sdk'.ret.op = "shutdown"
    /\ BpSdk_is_initialized(sdk.s)
    /\ ~sdk'.ret.ret.ok
    /\ sdk'.s.endpoints # EmptyMap

C40_Step ==
    C40_CloseFailed =>
        /\ BpSdk_is_initialized(sdk'.s)
        /\ DOMAIN sdk'.s.endpoints = DOMAIN sdk.s.endpoints

\* C40: a shutdown() that returns an error because closing an endpoint failed
\* leaves the SDK state unchanged: is_initialized() is still true and the
\* endpoints are still registered, so that a later shutdown() can close the
\* remaining endpoints and detach.
C40_ShutdownAtomicOnFailure == [][C40_Step]_vars

C39_Step ==
    sdk'.returns = sdk.returns + 1 =>
        /\ (sdk'.ret.op = "init" /\ sdk'.ret.ret.ok) => sdk.attached
        /\ (sdk'.ret.op = "is_initialized" /\ sdk'.ret.ret.value) => sdk.attached

\* C39: whatever the interleaving of concurrent init() calls on one SDK, an
\* init() returns Ok only when the attach to the native engine has completed
\* successfully, never while it is still in progress or after it has failed,
\* and is_initialized() answers true only while the engine is attached.
C39_InitOkOnlyWhenAttached == [][C39_Step]_vars

====
